---- MODULE Spec2Model ----
(***************************************************************************)
(* Wigner-function propagation script (Magnetic_Field_3D.py, lines 396 to  *)
(* 1040): the split-operator engine, the frame precompute passes, the      *)
(* animator that drives the surface mesh and the time HUD, and main; and   *)
(* the electrical arc demo (Electrical_Arc_Demo.py, lines 1 to 243).       *)
(*                                                                         *)
(* Spec      the pipeline of main: precompute -> mesh -> animator ->       *)
(*           handler, with the host's frame changes and direct calls of    *)
(*           apply_frame.  The wavefunction is kept as a term              *)
(*           step^k(gaussian(n)); a Wigner value is the term               *)
(*           W(psi)[x index, p index].  Coordinates are exact rationals.   *)
(* SpecDown  the index selection np.linspace(0, n-1, m, dtype=int) as a    *)
(*           pure function of (n, m).                                      *)
(* SpecStep  QuantumSystem.step on concrete wavefunctions with exact       *)
(*           arithmetic in Z[zeta], zeta = exp(i*pi/4).                    *)
(* SpecProduct  the circular product array of QuantumSystem.wigner.        *)
(* SpecWigner   QuantumSystem.wigner in the same exact arithmetic.         *)
(* SpecFloat    the float classes (finite, inf, nan) of the values that    *)
(*           precompute_single computes.                                   *)
(* SpecHost  main inside its host: exceptions leaving main, re-runs of     *)
(*           the script, mesh edits and handlers of other scripts.         *)
(* SpecArc   create_electrical_arc, its frame_change_pre handler and the   *)
(*           host's frame changes.                                         *)
(***************************************************************************)
EXTENDS Integers, Sequences, FiniteSets, TLC

\* ------------------------------------------------------------------ bounds
\* grid sizes n are drawn from 1..MaxN; a sweep is an increasing list of them
MaxN == 3
\* frames_per_n and frames are drawn from 0..MaxQuota
MaxQuota == 3
\* steps_per_frame is drawn from 0..MaxSteps
MaxSteps == 2
\* mesh_nx is drawn from 1..MaxMesh, mesh_ny from {1, MaxMesh}
MaxMesh == 2
\* SpecDown: the source array is n x n with n in 1..MaxAxis
MaxAxis == 6
\* SpecDown: the display resolution is drawn from 1..MaxDisplay on each axis
MaxDisplay == 4
\* SpecStep: the potential and kinetic phase quanta are drawn from 0..MaxPhase
MaxPhase == 2
\* SpecStep: step is called at most MaxCalls times
MaxCalls == 2
\* SpecProduct: the grid size n is drawn from 1..MaxGrid
MaxGrid == 4
\* SpecHost: the script is run at most MaxRuns times
MaxRuns == 2
\* SpecArc: the arc has MaxSegments segments, MaxSegments + 1 vertices
\* (ARC_SEGMENTS is 90)
MaxSegments == 0
\* SpecArc: the host moves to the scene frames 1..MaxArcFrame
MaxArcFrame == 6

\* ----------------------------------------------------------------- helpers
\* Python None: for an object, for an array, for an exception
None == [none |-> TRUE]
NoArray == <<>>
NoError == ""

Max2(a, b) == IF a >= b THEN a ELSE b
Min2(a, b) == IF a <= b THEN a ELSE b

RECURSIVE GCD(_, _)
GCD(a, b) == IF b = 0 THEN a ELSE GCD(b, a % b)

Abs(a) == IF a < 0 THEN 0 - a ELSE a

\* the rational num/den (den > 0) in lowest terms
Frac(num, den) ==
    LET g == GCD(Abs(num), den)
    IN  <<num \div g, den \div g>>

\* the increasing lists of at least two grid sizes
Sweeps ==
    {nl \in UNION {[1..k -> 1..MaxN] : k \in 2..MaxN} :
        \A a \in 1..(Len(nl) - 1) : nl[a] < nl[a + 1]}

\* ------------------------------------------------------ numpy primitives
\* np.fft.fftfreq(n, d) * (n * d): the integer bins 0, 1, ..., -2, -1
fftfreq(n) ==
    [b \in 1..n |-> IF b - 1 <= (n - 1) \div 2 THEN b - 1 ELSE b - 1 - n]

\* np.fft.fftshift on one axis: roll by n // 2
fftshift(a) ==
    LET n == Len(a)
    IN  [b \in 1..n |-> a[((b - 1 - (n \div 2)) % n) + 1]]

\* variant of linspace that rounds the real samples to the nearest integer
linspace_rounded(start, stop, num) ==
    [q \in 1..num |->
        IF num = 1 THEN start
        ELSE IF q = num THEN stop
        ELSE start + (2 * (q - 1) * (stop - start) + (num - 1)) \div (2 * (num - 1))]

\* variant of linspace without the end point: endpoint=False
linspace_no_endpoint(start, stop, num) ==
    [q \in 1..num |-> start + ((q - 1) * (stop - start)) \div num]

\* variant of linspace that keeps every index: np.arange(start, stop + 1)
linspace_every_index(start, stop, num) == [q \in 1..(stop - start + 1) |-> start + q - 1]

\* np.linspace(start, stop, num, dtype=int) for 0 <= start <= stop: the real
\* samples start + k*(stop-start)/(num-1) are floored, the last is stop
linspace(start, stop, num) ==
    [q \in 1..num |->
        IF num = 1 THEN start
        ELSE IF q = num THEN stop
        ELSE start + ((q - 1) * (stop - start)) \div (num - 1)]

\* A[np.ix_(rows, cols)] for 0-based index lists
ix_(A, rows, cols) ==
    [a \in 1..Len(rows) |-> [b \in 1..Len(cols) |-> A[rows[a] + 1][cols[b] + 1]]]

\* A.shape of a 2-D array
Shape(A) == <<Len(A), IF Len(A) = 0 THEN 0 ELSE Len(A[1])>>

\* A.ravel() in C order
ravel(A) ==
    LET nc == Shape(A)[2]
    IN  [q \in 1..(Shape(A)[1] * nc) |-> A[((q - 1) \div nc) + 1][((q - 1) % nc) + 1]]

\* ------------------------------------------------------------ Knobs
\* The controls the pipeline reads.  A multi-n sweep is taken when n_list has
\* at least two entries; n and frames are then unused, and frames_per_n is
\* unused otherwise.  dt is 2 time quanta.
Knobs ==
    {[n |-> 1, n_list |-> nl, frames_per_n |-> q, frames |-> 1,
      steps_per_frame |-> sp, mesh_nx |-> mx, mesh_ny |-> my, dt |-> 2, z_scale |-> 8] :
        nl \in Sweeps, q \in 0..MaxQuota, sp \in 0..MaxSteps,
        mx \in 1..MaxMesh, my \in {1, MaxMesh}}
    \cup
    {c \in
        {[n |-> n, n_list |-> nl, frames_per_n |-> 1, frames |-> q,
          steps_per_frame |-> sp, mesh_nx |-> mx, mesh_ny |-> my, dt |-> 2, z_scale |-> 8] :
            n \in 1..MaxN, nl \in {<<>>, <<MaxN>>}, q \in 0..MaxQuota,
            sp \in 0..MaxSteps, mx \in 1..MaxMesh, my \in {1, MaxMesh}} :
        c.n_list = <<>> \/ c.n = MaxN}

\* ------------------------------------------------------------ QuantumSystem
\* x[i] = -L/2 + i*L/n is kept as the exact fraction (2i - n)/(2n) of L;
\* k is kept as the integer bin of 2*pi/L.
QuantumSystem(n) ==
    [n   |-> n,
     x   |-> [i \in 1..n |-> Frac(2 * (i - 1) - n, 2 * n)],
     k   |-> fftfreq(n),
     psi |-> [ic |-> "zeros", n |-> n, steps |-> 0],
     U_V |-> "ones"]

set_double_well(sys) == [sys EXCEPT !.U_V = "double_well"]

set_initial_gaussian(sys) ==
    [sys EXCEPT !.psi = [ic |-> "gaussian", n |-> sys.n, steps |-> 0]]

\* one Strang step of the wavefunction term
step(sys) == [sys EXCEPT !.psi.steps = @ + 1]

\* X, P = meshgrid(x, p) and W.T: row j is momentum p[j], column i is
\* position x[i]; p is in units of pi/L
wigner(sys) ==
    LET n == sys.n
        p == fftshift(fftfreq(n))
    IN  [X |-> [j \in 1..n |-> [i \in 1..n |-> sys.x[i]]],
         P |-> [j \in 1..n |-> [i \in 1..n |-> p[j]]],
         W |-> [j \in 1..n |-> [i \in 1..n |-> [psi |-> sys.psi, xi |-> i - 1, pj |-> j - 1]]]]

\* ------------------------------------------------------------ state
VARIABLES
    cfg,         \* the Knobs record main is called with
    pc,          \* main's position
    use_multi,   \* main: use_multi
    idx,         \* precompute_multi: segment index
    sys,         \* precompute: the QuantumSystem of the running segment
    ix, iy,      \* precompute: the selected column / row indices
    Xd_i, Pd_i,  \* precompute: down-sampled meshes of the running segment
    Xd0, Pd0,    \* precompute_multi: meshes kept from the first segment
    j, s,        \* precompute: frame loop counter, step loop counter
    frames_all,  \* the list object precompute builds and returns
    made,        \* history: for each appended frame, its segment and number
    Xd, Pd,      \* main: the meshes precompute returned
    frames,      \* main: the list precompute returned (a reference to frames_all)
    surf,        \* the surface mesh: its vertex coordinates
    anim,        \* the WignerAnimator
    hud,         \* the HUD text body: the time written, in time quanta
    handlers,    \* bpy.app.handlers.frame_change_post
    error,       \* the exception raised last, if any
    shown,       \* history: the last frame read by apply_frame
    down,        \* SpecDown: one down-sampling of one array
    qs,          \* SpecStep: one QuantumSystem with a concrete wavefunction
    host,        \* history: the number of script runs, whether this run aborted
    arc,         \* SpecArc: the scene and handler list of the arc demo
    scn          \* the scene's timeline: frame_start and frame_end

pre_vars  == <<idx, sys, ix, iy, Xd_i, Pd_i, Xd0, Pd0, j, s, frames_all, made>>
main_vars == <<Xd, Pd, frames>>
disp_vars == <<surf, anim, hud, error, shown>>
pipe_vars == <<cfg, pc, use_multi, pre_vars, main_vars, disp_vars, handlers, scn>>
vars == <<pipe_vars, down, qs, host, arc>>

\* main(c) is about to run
Start(c) ==
    /\ cfg = c
    /\ pc = "main"
    /\ use_multi = FALSE
    /\ idx = 0
    /\ sys = None
    /\ ix = <<>> /\ iy = <<>>
    /\ Xd_i = NoArray /\ Pd_i = NoArray
    /\ Xd0 = NoArray /\ Pd0 = NoArray
    /\ j = 0 /\ s = 0
    /\ frames_all = <<>>
    /\ made = <<>>
    /\ Xd = NoArray /\ Pd = NoArray /\ frames = None
    /\ surf = None
    /\ anim = None
    /\ hud = None
    /\ handlers = <<>>
    /\ error = NoError
    /\ shown = None
    /\ scn = None

Init ==
    /\ \E c \in Knobs : Start(c)
    /\ down = None
    /\ qs = None
    /\ host = [runs |-> 1, aborted |-> FALSE]
    /\ arc = None

\* main's frames and the animator's self.frames are references to the one list
\* object that precompute built; a reference to the list of an earlier run
\* carries that list
ListRef == [list |-> "frames_all"]
Deref(ref) == IF ref.list = "frames_all" THEN frames_all ELSE ref.value

\* ------------------------------------------------------------ main, part 1
\* main: choose the single-n or the multi-n path and enter it
MainStart ==
    /\ pc = "main"
    /\ use_multi' = (Len(cfg.n_list) >= 2)
    /\ pc' = IF Len(cfg.n_list) >= 2 THEN "multi_seg" ELSE "single"
    /\ UNCHANGED <<scn, arc, host, down, qs, cfg, pre_vars, main_vars, disp_vars, handlers>>

\* ------------------------------------------------------------ precompute_single
\* lines 557-567: build the system, take frame 0
SingleBegin ==
    /\ pc = "single"
    /\ LET q  == set_initial_gaussian(set_double_well(QuantumSystem(cfg.n)))
           w  == wigner(q)
           cx == linspace(0, cfg.n - 1, cfg.mesh_nx)
           cy == linspace(0, cfg.n - 1, cfg.mesh_ny)
       IN  /\ sys' = q
           /\ ix' = cx /\ iy' = cy
           /\ Xd_i' = ix_(w.X, cy, cx)
           /\ Pd_i' = ix_(w.P, cy, cx)
           /\ frames_all' = <<ix_(w.W, cy, cx)>>
           /\ made' = <<[seg |-> 0, num |-> 0]>>
    /\ j' = 1 /\ s' = 0
    /\ pc' = "single_loop"
    /\ UNCHANGED <<scn, arc, host, down, qs, cfg, use_multi, idx, Xd0, Pd0, main_vars, disp_vars, handlers>>

\* line 570: one sys.step() of the inner loop
SingleStep ==
    /\ pc = "single_loop"
    /\ j < cfg.frames
    /\ s < cfg.steps_per_frame
    /\ sys' = step(sys)
    /\ s' = s + 1
    /\ UNCHANGED <<scn, arc, host, down, qs, cfg, pc, use_multi, idx, ix, iy, Xd_i, Pd_i, Xd0, Pd0, j,
                   frames_all, made, main_vars, disp_vars, handlers>>

\* lines 571-572: the inner loop is over; take the next frame
SingleFrame ==
    /\ pc = "single_loop"
    /\ j < cfg.frames
    /\ s >= cfg.steps_per_frame
    /\ frames_all' = Append(frames_all, ix_(wigner(sys).W, iy, ix))
    /\ made' = Append(made, [seg |-> 0, num |-> j])
    /\ j' = j + 1
    /\ s' = 0
    /\ UNCHANGED <<scn, arc, host, down, qs, cfg, pc, use_multi, idx, sys, ix, iy, Xd_i, Pd_i, Xd0, Pd0,
                   main_vars, disp_vars, handlers>>

\* line 573 and main line 972: return Xd, Pd, frames
SingleReturn ==
    /\ pc = "single_loop"
    /\ j >= cfg.frames
    /\ Xd' = Xd_i /\ Pd' = Pd_i /\ frames' = ListRef
    /\ pc' = "grid"
    /\ UNCHANGED <<scn, arc, host, down, qs, cfg, use_multi, pre_vars, disp_vars, handlers>>

\* ------------------------------------------------------------ precompute_multi
\* variant of MultiSegBegin whose frame loop starts at 0: range(cfg.frames_per_n)
MultiSegBegin_loop_from_zero ==
    /\ pc = "multi_seg"
    /\ idx < Len(cfg.n_list)
    /\ LET n_i == cfg.n_list[idx + 1]
           q   == set_initial_gaussian(set_double_well(QuantumSystem(n_i)))
           w   == wigner(q)
           cx  == linspace(0, n_i - 1, cfg.mesh_nx)
           cy  == linspace(0, n_i - 1, cfg.mesh_ny)
       IN  /\ sys' = q
           /\ ix' = cx /\ iy' = cy
           /\ Xd_i' = ix_(w.X, cy, cx)
           /\ Pd_i' = ix_(w.P, cy, cx)
           /\ Xd0' = IF idx = 0 THEN ix_(w.X, cy, cx) ELSE Xd0
           /\ Pd0' = IF idx = 0 THEN ix_(w.P, cy, cx) ELSE Pd0
           /\ frames_all' = Append(frames_all, ix_(w.W, cy, cx))
           /\ made' = Append(made, [seg |-> idx, num |-> 0])
    /\ j' = 0 /\ s' = 0
    /\ pc' = "multi_loop"
    /\ UNCHANGED <<scn, arc, host, down, qs, cfg, use_multi, idx, main_vars, disp_vars, handlers>>

\* variant of MultiSegBegin that initialises the wavefunction for the first
\* segment only; later segments go on from the wavefunction left behind
MultiSegBegin_keeps_psi ==
    /\ pc = "multi_seg"
    /\ idx < Len(cfg.n_list)
    /\ LET n_i == cfg.n_list[idx + 1]
           q0  == set_initial_gaussian(set_double_well(QuantumSystem(n_i)))
           q   == IF idx = 0 THEN q0 ELSE [q0 EXCEPT !.psi = sys.psi]
           w   == wigner(q)
           cx  == linspace(0, n_i - 1, cfg.mesh_nx)
           cy  == linspace(0, n_i - 1, cfg.mesh_ny)
       IN  /\ sys' = q
           /\ ix' = cx /\ iy' = cy
           /\ Xd_i' = ix_(w.X, cy, cx)
           /\ Pd_i' = ix_(w.P, cy, cx)
           /\ Xd0' = IF idx = 0 THEN ix_(w.X, cy, cx) ELSE Xd0
           /\ Pd0' = IF idx = 0 THEN ix_(w.P, cy, cx) ELSE Pd0
           /\ frames_all' = Append(frames_all, ix_(w.W, cy, cx))
           /\ made' = Append(made, [seg |-> idx, num |-> 0])
    /\ j' = 1 /\ s' = 0
    /\ pc' = "multi_loop"
    /\ UNCHANGED <<scn, arc, host, down, qs, cfg, use_multi, idx, main_vars, disp_vars, handlers>>

\* lines 582-595: a fresh system for segment idx, its frame 0
MultiSegBegin ==
    /\ pc = "multi_seg"
    /\ idx < Len(cfg.n_list)
    /\ LET n_i == cfg.n_list[idx + 1]
           q   == set_initial_gaussian(set_double_well(QuantumSystem(n_i)))
           w   == wigner(q)
           cx  == linspace(0, n_i - 1, cfg.mesh_nx)
           cy  == linspace(0, n_i - 1, cfg.mesh_ny)
       IN  /\ sys' = q
           /\ ix' = cx /\ iy' = cy
           /\ Xd_i' = ix_(w.X, cy, cx)
           /\ Pd_i' = ix_(w.P, cy, cx)
           /\ Xd0' = IF idx = 0 THEN ix_(w.X, cy, cx) ELSE Xd0
           /\ Pd0' = IF idx = 0 THEN ix_(w.P, cy, cx) ELSE Pd0
           /\ frames_all' = Append(frames_all, ix_(w.W, cy, cx))
           /\ made' = Append(made, [seg |-> idx, num |-> 0])
    /\ j' = 1 /\ s' = 0
    /\ pc' = "multi_loop"
    /\ UNCHANGED <<scn, arc, host, down, qs, cfg, use_multi, idx, main_vars, disp_vars, handlers>>

\* variant of MultiStep whose inner loop runs once more: range(steps_per_frame + 1)
MultiStep_one_more ==
    /\ pc = "multi_loop"
    /\ j < cfg.frames_per_n
    /\ s <= cfg.steps_per_frame
    /\ sys' = step(sys)
    /\ s' = s + 1
    /\ UNCHANGED <<scn, arc, host, down, qs, cfg, pc, use_multi, idx, ix, iy, Xd_i, Pd_i, Xd0, Pd0, j,
                   frames_all, made, main_vars, disp_vars, handlers>>

\* line 598: one sys.step() of the inner loop
MultiStep ==
    /\ pc = "multi_loop"
    /\ j < cfg.frames_per_n
    /\ s < cfg.steps_per_frame
    /\ sys' = step(sys)
    /\ s' = s + 1
    /\ UNCHANGED <<scn, arc, host, down, qs, cfg, pc, use_multi, idx, ix, iy, Xd_i, Pd_i, Xd0, Pd0, j,
                   frames_all, made, main_vars, disp_vars, handlers>>

\* variant of MultiFrame that writes every frame of a segment into one array
\* object: the frames appended earlier in the segment show the new values
MultiFrame_shared_array ==
    /\ pc = "multi_loop"
    /\ j < cfg.frames_per_n
    /\ s >= cfg.steps_per_frame
    /\ LET Wn == ix_(wigner(sys).W, iy, ix)
       IN  frames_all' = [k \in 1..Len(frames_all) |->
                             IF made[k].seg = idx THEN Wn ELSE frames_all[k]] \o <<Wn>>
    /\ made' = Append(made, [seg |-> idx, num |-> j])
    /\ j' = j + 1
    /\ s' = 0
    /\ UNCHANGED <<scn, arc, host, down, qs, cfg, pc, use_multi, idx, sys, ix, iy, Xd_i, Pd_i, Xd0, Pd0,
                   main_vars, disp_vars, handlers>>

\* lines 599-600: the inner loop is over; take the next frame
MultiFrame ==
    /\ pc = "multi_loop"
    /\ j < cfg.frames_per_n
    /\ s >= cfg.steps_per_frame
    /\ frames_all' = Append(frames_all, ix_(wigner(sys).W, iy, ix))
    /\ made' = Append(made, [seg |-> idx, num |-> j])
    /\ j' = j + 1
    /\ s' = 0
    /\ UNCHANGED <<scn, arc, host, down, qs, cfg, pc, use_multi, idx, sys, ix, iy, Xd_i, Pd_i, Xd0, Pd0,
                   main_vars, disp_vars, handlers>>

\* line 602 and the next turn of the loop of line 581
MultiSegEnd ==
    /\ pc = "multi_loop"
    /\ j >= cfg.frames_per_n
    /\ idx' = idx + 1
    /\ pc' = "multi_seg"
    /\ UNCHANGED <<scn, arc, host, down, qs, cfg, use_multi, sys, ix, iy, Xd_i, Pd_i, Xd0, Pd0, j, s,
                   frames_all, made, main_vars, disp_vars, handlers>>

\* variant of MultiReturn that returns from inside the segment loop, after
\* the first segment
MultiReturn_in_loop ==
    /\ pc = "multi_seg"
    /\ idx >= 1
    /\ Xd0 /= NoArray /\ Pd0 /= NoArray
    /\ Xd' = Xd0 /\ Pd' = Pd0 /\ frames' = ListRef
    /\ pc' = "grid"
    /\ UNCHANGED <<scn, arc, host, down, qs, cfg, use_multi, pre_vars, disp_vars, handlers>>

\* lines 604-605 and main line 969: return Xd0, Pd0, frames_all
MultiReturn ==
    /\ pc = "multi_seg"
    /\ idx >= Len(cfg.n_list)
    /\ Xd0 /= NoArray /\ Pd0 /= NoArray
    /\ Xd' = Xd0 /\ Pd' = Pd0 /\ frames' = ListRef
    /\ pc' = "grid"
    /\ UNCHANGED <<scn, arc, host, down, qs, cfg, use_multi, pre_vars, disp_vars, handlers>>

\* ------------------------------------------------------------ mesh
\* variant of create_grid_object that lists the vertices column by column:
\* for i in range(nx) for j in range(ny)
create_grid_object_column_major(X, Y) ==
    LET ny == Shape(X)[1]
        nx == Shape(X)[2]
    IN  [verts |-> [v \in 1..(ny * nx) |->
                      <<X[((v - 1) % ny) + 1][((v - 1) \div ny) + 1],
                        Y[((v - 1) % ny) + 1][((v - 1) \div ny) + 1],
                        <<>>>>],
         faces |-> {<<r * nx + c, r * nx + c + 1, r * nx + c + nx + 1, r * nx + c + nx>> :
                      r \in 0..(ny - 2), c \in 0..(nx - 2)}]

\* create_grid_object: vertex number j*nx + i at (X[j, i], Y[j, i], 0) and
\* the quad faces; z = <<>> stands for 0.0
create_grid_object(X, Y) ==
    LET ny == Shape(X)[1]
        nx == Shape(X)[2]
    IN  [verts |-> [v \in 1..(ny * nx) |->
                      <<X[((v - 1) \div nx) + 1][((v - 1) % nx) + 1],
                        Y[((v - 1) \div nx) + 1][((v - 1) % nx) + 1],
                        <<>>>>],
         faces |-> {<<r * nx + c, r * nx + c + 1, r * nx + c + nx + 1, r * nx + c + nx>> :
                      r \in 0..(ny - 2), c \in 0..(nx - 2)}]

\* vertices.foreach_get("co", buf): the flat coordinate array
foreach_get(verts) ==
    [q \in 1..(3 * Len(verts)) |-> verts[((q - 1) \div 3) + 1][((q - 1) % 3) + 1]]

\* vertices.foreach_set("co", buf)
foreach_set(buf) ==
    [v \in 1..(Len(buf) \div 3) |-> <<buf[3 * v - 2], buf[3 * v - 1], buf[3 * v]>>]

\* ------------------------------------------------------------ WignerAnimator
\* __init__ (lines 901-915); the list is never empty when main calls it
WignerAnimator(ref, z_scale, dt_frame) ==
    [frames     |-> ref,
     z_scale    |-> z_scale,
     dt_frame   |-> dt_frame,
     ny         |-> Shape(Deref(ref)[1])[1],
     nx         |-> Shape(Deref(ref)[1])[2],
     vert_count |-> Shape(Deref(ref)[1])[1] * Shape(Deref(ref)[1])[2],
     co_buffer  |-> NoArray]

\* variant of clamp without the lower bound: min(len(frames) - 1, fidx)
clamp_upper_only(T, fidx) == Min2(T - 1, fidx)

\* line 919: the clamped frame index
clamp(T, fidx) == Max2(0, Min2(T - 1, fidx))

\* list[i] of Python: a negative index counts from the end
PyIndex(list, i) == list[(IF i < 0 THEN i + Len(list) ELSE i) + 1]

\* variant of apply_frame that fills the coordinate buffer before it compares
\* the vertex counts
apply_frame_buffer_first(a, verts, fidx) ==
    LET T      == Len(Deref(a.frames))
        f      == clamp(T, fidx)
        frame  == PyIndex(Deref(a.frames), f)
        z      == [q \in 1..Len(ravel(frame)) |-> <<a.z_scale, ravel(frame)[q]>>]
        vcount == Len(verts)
        buf    == IF a.co_buffer = NoArray \/ Len(a.co_buffer) /= 3 * vcount
                  THEN foreach_get(verts) ELSE a.co_buffer
        out    == [q \in 1..Len(buf) |-> IF q % 3 = 0 THEN z[q \div 3] ELSE buf[q]]
    IN  IF vcount /= a.vert_count \/ Len(z) /= vcount
        THEN [raised |-> "ValueError: Vertex count mismatch",
              anim |-> [a EXCEPT !.co_buffer = buf], verts |-> verts, fidx |-> f]
        ELSE [raised |-> NoError, anim |-> [a EXCEPT !.co_buffer = out],
              verts |-> foreach_set(out), fidx |-> f]

\* apply_frame (lines 917-936) on animator a and vertex list verts: the
\* outcome, with raised /= NoError when the call raises
apply_frame(a, verts, fidx) ==
    LET T      == Len(Deref(a.frames))
        f      == clamp(T, fidx)
        frame  == PyIndex(Deref(a.frames), f)
        z      == [q \in 1..Len(ravel(frame)) |-> <<a.z_scale, ravel(frame)[q]>>]
        vcount == Len(verts)
        buf    == IF a.co_buffer = NoArray \/ Len(a.co_buffer) /= 3 * vcount
                  THEN foreach_get(verts) ELSE a.co_buffer
        out    == [q \in 1..Len(buf) |-> IF q % 3 = 0 THEN z[q \div 3] ELSE buf[q]]
    IN  IF f < 0 - T \/ f >= T
        THEN [raised |-> "IndexError: list index out of range", anim |-> a,
              verts |-> verts, fidx |-> f]
        ELSE IF vcount /= a.vert_count
        THEN [raised |-> "ValueError: Vertex count mismatch", anim |-> a,
              verts |-> verts, fidx |-> f]
        ELSE IF Len(z) /= vcount
        THEN [raised |-> "ValueError: could not broadcast",
              anim |-> [a EXCEPT !.co_buffer = buf], verts |-> verts, fidx |-> f]
        ELSE [raised |-> NoError, anim |-> [a EXCEPT !.co_buffer = out],
              verts |-> foreach_set(out), fidx |-> f]

\* update_hud_time (lines 938-942): the time written for index fidx
update_hud_time(a, fidx) == fidx * a.dt_frame

\* the history record of a read of frame r.fidx
Read(r, arg) == [arg |-> arg, fidx |-> r.fidx, pc |-> pc]

\* ------------------------------------------------------------ main, part 2
\* line 976: the surface mesh from the returned meshes
CreateGrid ==
    /\ pc = "grid"
    /\ surf' = create_grid_object(Xd, Pd)
    /\ pc' = "hud"
    /\ UNCHANGED <<scn, arc, host, down, qs, cfg, use_multi, pre_vars, main_vars, anim, hud, error, shown, handlers>>

\* lines 1001-1009: the HUD text, initial label t = 0
CreateHud ==
    /\ pc = "hud"
    /\ hud' = [body |-> 0]
    /\ pc' = "anim"
    /\ UNCHANGED <<scn, arc, host, down, qs, cfg, use_multi, pre_vars, main_vars, surf, anim, error, shown, handlers>>

\* lines 1012-1013: dt_frame and the animator
NewAnimator ==
    /\ pc = "anim"
    /\ anim' = WignerAnimator(frames, cfg.z_scale, cfg.dt * cfg.steps_per_frame)
    /\ pc' = "apply0"
    /\ UNCHANGED <<scn, arc, host, down, qs, cfg, use_multi, pre_vars, main_vars, surf, hud, error, shown, handlers>>

\* line 1014: anim.apply_frame(0); an exception ends main
MainApply ==
    /\ pc = "apply0"
    /\ LET r == apply_frame(anim, surf.verts, 0)
       IN  /\ anim' = r.anim
           /\ surf' = [surf EXCEPT !.verts = r.verts]
           /\ error' = IF r.raised = NoError THEN error ELSE r.raised
           /\ shown' = IF r.raised = NoError THEN Read(r, 0) ELSE shown
           /\ pc' = IF r.raised = NoError THEN "hud0" ELSE "raised"
    /\ UNCHANGED <<scn, arc, host, down, qs, cfg, use_multi, pre_vars, main_vars, hud, handlers>>

\* line 1015: anim.update_hud_time(0)
MainHud ==
    /\ pc = "hud0"
    /\ hud' = [hud EXCEPT !.body = update_hud_time(anim, 0)]
    /\ pc' = "install"
    /\ UNCHANGED <<scn, arc, host, down, qs, cfg, use_multi, pre_vars, main_vars, surf, anim, error, shown, handlers>>

\* variant of install that appends without removing the earlier handlers
install_append_only(hs, self, frame_start) ==
    hs \o <<[is_wigner_handler |-> TRUE, frame_start |-> frame_start, self |-> self]>>

\* install (lines 944-959): drop the tagged handlers, append a new one; self
\* is the animator the closure holds
install(hs, self, frame_start) ==
    SelectSeq(hs, LAMBDA h : ~h.is_wigner_handler)
        \o <<[is_wigner_handler |-> TRUE, frame_start |-> frame_start, self |-> self]>>

\* line 1016: anim.install(frame_start=1)
Install ==
    /\ pc = "install"
    /\ handlers' = install(handlers, host.runs, 1)
    /\ pc' = "timeline"
    /\ UNCHANGED <<scn, arc, host, down, qs, cfg, use_multi, pre_vars, main_vars, disp_vars>>

\* variant of Timeline whose timeline starts at scene frame 0
Timeline_from_zero ==
    /\ pc = "timeline"
    /\ scn' = [frame_start |-> 0, frame_end |-> Len(Deref(frames))]
    /\ pc' = "done"
    /\ UNCHANGED <<arc, host, down, qs, cfg, use_multi, pre_vars, main_vars, disp_vars, handlers>>

\* lines 1019-1036: the timeline (frame_start = 1, frame_end = total_frames
\* = len(frames), lines 970 and 973) and the rest of main
Timeline ==
    /\ pc = "timeline"
    /\ scn' = [frame_start |-> 1, frame_end |-> Len(Deref(frames))]
    /\ pc' = "done"
    /\ UNCHANGED <<arc, host, down, qs, cfg, use_multi, pre_vars, main_vars, disp_vars, handlers>>

\* ------------------------------------------------------------ the host
\* the scene frames the host may move to reach past both ends of the timeline;
\* the direct calls of apply_frame take the indices just outside the buffer
SceneFrames == 0..(Len(frames_all) + 2)
FrameArgs   == {-1, Len(frames_all)}

\* line 954: idx = max(0, f - frame_start) of the handler h
handler_idx(h, f) == Max2(0, f - h.frame_start)

\* _handler (lines 951-956) for scene frame f, run by the host while no script
\* is running; an exception in apply_frame ends the handler before the HUD is
\* written
FrameChange(f) ==
    /\ pc \in {"main", "done", "raised"}
    /\ \E hi \in 1..Len(handlers) : handlers[hi].is_wigner_handler
    /\ LET tagged == SelectSeq(handlers, LAMBDA h : h.is_wigner_handler)
           h == tagged[Len(tagged)]
           k == handler_idx(h, f)
           r == apply_frame(anim, surf.verts, k)
       IN  /\ anim' = r.anim
           /\ surf' = [surf EXCEPT !.verts = r.verts]
           /\ error' = IF r.raised = NoError THEN error ELSE r.raised
           /\ shown' = IF r.raised = NoError THEN Read(r, k) ELSE shown
           /\ hud' = IF r.raised = NoError
                     THEN [hud EXCEPT !.body = update_hud_time(anim, k)] ELSE hud
    /\ UNCHANGED <<scn, arc, host, down, qs, cfg, pc, use_multi, pre_vars, main_vars, handlers>>

\* a direct call anim.apply_frame(fidx) with any integer
ApplyFrame(fidx) ==
    /\ anim /= None
    /\ pc = "done"
    /\ LET r == apply_frame(anim, surf.verts, fidx)
       IN  /\ anim' = r.anim
           /\ surf' = [surf EXCEPT !.verts = r.verts]
           /\ error' = IF r.raised = NoError THEN error ELSE r.raised
           /\ shown' = IF r.raised = NoError THEN Read(r, fidx) ELSE shown
    /\ UNCHANGED <<scn, arc, host, down, qs, cfg, pc, use_multi, pre_vars, main_vars, hud, handlers>>

\* ------------------------------------------------------------ SpecHost
\* The pipeline in a host session: the script may be run again, a run may
\* fail inside precompute, the user may edit the surface mesh and may call
\* anim.install again.

\* a frame_change_post handler of some other script
Foreign == [is_wigner_handler |-> FALSE, frame_start |-> 0, self |-> 0]

\* sys.step() or sys.wigner() raises inside precompute_single (lines 557-572)
\* or precompute_multi (lines 582-600)
Fault ==
    /\ pc \in {"single", "single_loop", "multi_seg", "multi_loop"}
    /\ pc' = "unwinding"
    /\ error' = "Exception"
    /\ UNCHANGED <<scn, arc, host, down, qs, cfg, use_multi, pre_vars, main_vars, surf, anim, hud, shown, handlers>>

\* variant of Unwind in which main catches the exception and goes on with the
\* frames made so far
Unwind_caught ==
    /\ pc = "unwinding"
    /\ frames_all /= <<>>
    /\ Xd' = Xd_i /\ Pd' = Pd_i /\ frames' = ListRef
    /\ pc' = "grid"
    /\ host' = [host EXCEPT !.aborted = TRUE]
    /\ UNCHANGED <<scn, arc, down, qs, cfg, use_multi, pre_vars, disp_vars, handlers>>

\* the exception leaves precompute_* and main (lines 968-973): neither has a
\* try block around the pass, so main ends there and the locals of the pass
\* are gone
Unwind ==
    /\ pc = "unwinding"
    /\ pc' = "raised"
    /\ idx' = 0
    /\ sys' = None
    /\ ix' = <<>> /\ iy' = <<>>
    /\ Xd_i' = NoArray /\ Pd_i' = NoArray
    /\ Xd0' = NoArray /\ Pd0' = NoArray
    /\ j' = 0 /\ s' = 0
    /\ frames_all' = <<>>
    /\ made' = <<>>
    /\ host' = [host EXCEPT !.aborted = TRUE]
    /\ UNCHANGED <<scn, arc, down, qs, cfg, use_multi, main_vars, disp_vars, handlers>>

\* the script is run again (line 1039, main(K)) with controls c: main's
\* locals are new; the objects of the earlier run and the handler list stay
Rerun(c) ==
    /\ pc \in {"done", "raised"}
    /\ host.runs < MaxRuns
    /\ cfg' = c
    /\ pc' = "main"
    /\ use_multi' = FALSE
    /\ idx' = 0
    /\ sys' = None
    /\ ix' = <<>> /\ iy' = <<>>
    /\ Xd_i' = NoArray /\ Pd_i' = NoArray
    /\ Xd0' = NoArray /\ Pd0' = NoArray
    /\ j' = 0 /\ s' = 0
    /\ frames_all' = <<>>
    /\ made' = <<>>
    /\ Xd' = NoArray /\ Pd' = NoArray /\ frames' = None
    /\ anim' = IF anim = None THEN None
               ELSE [anim EXCEPT !.frames = [list |-> "earlier", value |-> Deref(anim.frames)]]
    /\ error' = NoError
    /\ host' = [runs |-> host.runs + 1, aborted |-> FALSE]
    /\ UNCHANGED <<scn, arc, down, qs, surf, hud, shown, handlers>>

\* the user deletes the last vertex of the surface mesh or adds one
EditMesh(add) ==
    /\ pc = "done"
    /\ anim /= None
    /\ Len(surf.verts) = anim.vert_count
    /\ surf' = [surf EXCEPT !.verts =
                   IF add THEN Append(@, @[Len(@)]) ELSE SubSeq(@, 1, Len(@) - 1)]
    /\ UNCHANGED <<scn, arc, host, down, qs, cfg, pc, use_multi, pre_vars, main_vars, anim, hud, error, shown, handlers>>

\* the user moves the first vertex of the surface mesh along x, to 9 L
MovedX == <<9, 1>>

MoveVertex ==
    /\ pc = "done"
    /\ anim /= None
    /\ Len(surf.verts) >= 1
    /\ surf.verts[1][1] /= MovedX
    /\ surf' = [surf EXCEPT !.verts[1][1] = MovedX]
    /\ UNCHANGED <<scn, arc, host, down, qs, cfg, pc, use_multi, pre_vars, main_vars, anim, hud, error, shown, handlers>>

\* the user calls anim.install(frame_start) once more
HostInstall(frame_start) ==
    /\ pc = "done"
    /\ anim /= None
    /\ handlers' = install(handlers, host.runs, frame_start)
    /\ UNCHANGED <<scn, arc, host, down, qs, cfg, pc, use_multi, pre_vars, main_vars, disp_vars>>

\* two sets of controls on a 2 x 1 mesh: a single-n run of two frames and a
\* two-segment sweep of two frames each
HostKnobs ==
    {c \in Knobs :
        /\ c.steps_per_frame = 1
        /\ c.mesh_nx = 2 /\ c.mesh_ny = 1
        /\ \/ c.n_list = <<>> /\ c.n = 2 /\ c.frames = 2
           \/ c.n_list = <<1, 2>> /\ c.frames_per_n = 2}

\* the scene frames the host moves to in a session
HostFrames == {1, 2}

\* another script registers its own handler
ForeignAppend ==
    /\ pc \in {"done", "raised"}
    /\ \A hi \in 1..Len(handlers) : handlers[hi] /= Foreign
    /\ handlers' = Append(handlers, Foreign)
    /\ UNCHANGED <<scn, arc, host, down, qs, cfg, pc, use_multi, pre_vars, main_vars, disp_vars>>

\* ------------------------------------------------------------ SpecDown
\* One down-sampling W[np.ix_(iy, ix)] of an n x n array to mesh_ny x mesh_nx,
\* as precompute_single (lines 562-567) and precompute_multi (lines 587-595)
\* do it.  The source value at row r, column c is the token <<r, c>>.
DownInputs ==
    {[pc |-> "input", n |-> n, mesh_nx |-> mx, mesh_ny |-> my,
      W |-> [r \in 1..n |-> [c \in 1..n |-> <<r - 1, c - 1>>]],
      ix |-> <<>>, iy |-> <<>>, out |-> <<>>] :
        n \in 1..MaxAxis, mx \in 1..MaxDisplay, my \in 1..MaxDisplay}

\* lines 587-588: the index lists
DownIndex ==
    /\ down /= None
    /\ down.pc = "input"
    /\ down' = [down EXCEPT !.ix = linspace(0, down.n - 1, down.mesh_nx),
                            !.iy = linspace(0, down.n - 1, down.mesh_ny),
                            !.pc = "indexed"]
    /\ UNCHANGED <<arc, pipe_vars, qs, host>>

\* line 595: the selection
DownSelect ==
    /\ down /= None
    /\ down.pc = "indexed"
    /\ down' = [down EXCEPT !.out = ix_(down.W, down.iy, down.ix), !.pc = "sampled"]
    /\ UNCHANGED <<arc, pipe_vars, qs, host>>

\* no script is running
Idle ==
    /\ cfg = None
    /\ pc = "idle"
    /\ use_multi = FALSE
    /\ idx = 0
    /\ sys = None
    /\ ix = <<>> /\ iy = <<>>
    /\ Xd_i = NoArray /\ Pd_i = NoArray
    /\ Xd0 = NoArray /\ Pd0 = NoArray
    /\ j = 0 /\ s = 0
    /\ frames_all = <<>>
    /\ made = <<>>
    /\ Xd = NoArray /\ Pd = NoArray /\ frames = None
    /\ surf = None
    /\ anim = None
    /\ hud = None
    /\ handlers = <<>>
    /\ error = NoError
    /\ shown = None
    /\ host = None
    /\ scn = None

InitDown ==
    /\ Idle
    /\ arc = None
    /\ down \in DownInputs
    /\ qs = None

NextDown == DownIndex \/ DownSelect

SpecDown == InitDown /\ [][NextDown]_vars

\* ------------------------------------------------------------ SpecStep
\* Exact complex numbers: <<a, b, c, d>> is a + b*zeta + c*zeta^2 + d*zeta^3
\* with zeta = exp(i*pi/4), so zeta^2 = i and zeta^4 = -1.
Z0 == <<0, 0, 0, 0>>
Z1 == <<1, 0, 0, 0>>
ZI == <<0, 0, 1, 0>>

ZAdd(a, b) == [c \in 1..4 |-> a[c] + b[c]]

\* zeta^e * a, for any integer e
ZPhase(a, e) ==
    LET r == e % 8
    IN  [c \in 1..4 |->
            LET src == (c - 1 - r) % 4
                t   == src + r
            IN  IF (t \div 4) % 2 = 0 THEN a[src + 1] ELSE 0 - a[src + 1]]

RECURSIVE ZSumTo(_, _)
ZSumTo(a, m) == IF m = 0 THEN Z0 ELSE ZAdd(ZSumTo(a, m - 1), a[m])

ZSum(a) == ZSumTo(a, Len(a))

RECURSIVE Log2(_)
Log2(n) == IF n <= 1 THEN 0 ELSE 1 + Log2(n \div 2)

\* the grid sizes whose transform twiddles are powers of zeta
GridSizes == {2, 4}

\* the domain lengths L: sqrt(4) and the default 12.0
Lengths == {2, 12}

\* An array of complex128 is [v, sc]: element i is v[i] / sqrt(2)^sc.
\* Elementwise product with an array of unit phases zeta^U[i].
PhaseMul(a, U) == [a EXCEPT !.v = [i \in 1..Len(a.v) |-> ZPhase(a.v[i], U[i])]]

\* variant of fft_ortho without the factor 1/sqrt(n): norm="backward"
fft_backward(a) ==
    LET n == Len(a.v)
    IN  [v  |-> [b \in 1..n |->
                    ZSum([l \in 1..n |->
                            ZPhase(a.v[l], 0 - (8 \div n) * (b - 1) * (l - 1))])],
         sc |-> a.sc]

\* np.fft.fft(a, norm="ortho"): sum_l a[l] exp(-2 pi i b l / n) / sqrt(n)
fft_ortho(a) ==
    LET n == Len(a.v)
    IN  [v  |-> [b \in 1..n |->
                    ZSum([l \in 1..n |->
                            ZPhase(a.v[l], 0 - (8 \div n) * (b - 1) * (l - 1))])],
         sc |-> a.sc + Log2(n)]

\* np.fft.ifft(a, norm="ortho"): sum_b a[b] exp(+2 pi i b l / n) / sqrt(n)
ifft_ortho(a) ==
    LET n == Len(a.v)
    IN  [v  |-> [l \in 1..n |->
                    ZSum([b \in 1..n |->
                            ZPhase(a.v[b], (8 \div n) * (b - 1) * (l - 1))])],
         sc |-> a.sc + Log2(n)]

\* QuantumSystem.__init__ with an integer L and 2*pi^2*dt/L^2 = kq*pi/4: psi is zeros, U_V is
\* ones, U_T[b] = exp(-i k[b]^2 dt/2) = zeta^(-kq * fftfreq[b]^2)
QuantumSystem_init(n, L, kq) ==
    [n     |-> n,
     L     |-> L,
     kq    |-> kq,
     k     |-> fftfreq(n),
     psi   |-> [v |-> [i \in 1..n |-> Z0], sc |-> 0],
     U_V   |-> [i \in 1..n |-> 0],
     U_T   |-> [b \in 1..n |-> (0 - kq * fftfreq(n)[b] * fftfreq(n)[b]) % 8],
     calls |-> 0,
     start |-> [v |-> [i \in 1..n |-> Z0], sc |-> 0],
     frame |-> None,
     last  |-> [op |-> "__init__", psi |-> [v |-> [i \in 1..n |-> Z0], sc |-> 0]]]

\* QuantumSystem.set_double_well with separation/2 = dx and
\* barrier_height*dt/2 = hq*pi/4: x[i]/x0 = i - n/2 and
\* U_V[i] = exp(-i V[i] dt/2) = zeta^(-hq * ((i - n/2)^2 - 1)^2)
QuantumSystem_set_double_well(q, hq) ==
    [q EXCEPT !.U_V = [i \in 1..q.n |->
        LET xi == (i - 1) - (q.n \div 2)
        IN  (0 - hq * (xi * xi - 1) * (xi * xi - 1)) % 8]]

\* variant of step that applies the kinetic step first and then both
\* potential half-steps
QuantumSystem_step_kinetic_first(q) ==
    LET p1 == ifft_ortho(PhaseMul(fft_ortho(q.psi), q.U_T))
        p2 == PhaseMul(p1, q.U_V)
        p3 == PhaseMul(p2, q.U_V)
    IN  [q EXCEPT !.psi = p3]

\* QuantumSystem.step
QuantumSystem_step(q) ==
    LET p1 == PhaseMul(q.psi, q.U_V)
        p2 == ifft_ortho(PhaseMul(fft_ortho(p1), q.U_T))
        p3 == PhaseMul(p2, q.U_V)
    IN  [q EXCEPT !.psi = p3]

\* precompute: sys.set_double_well(...) right after construction
SetDoubleWell(hq) ==
    /\ qs /= None
    /\ qs.last.op = "__init__"
    /\ qs' = [QuantumSystem_set_double_well(qs, hq) EXCEPT
                 !.last = [op |-> "set_double_well", psi |-> qs.psi]]
    /\ UNCHANGED <<arc, pipe_vars, down, host>>

\* precompute: sys.set_initial_gaussian(...) before the first step; the
\* wavefunction values are drawn from {0, 1, i}
SetInitial(v) ==
    /\ qs /= None
    /\ qs.last.op \in {"__init__", "set_double_well"}
    /\ qs' = [qs EXCEPT !.psi = [v |-> v, sc |-> 0],
                        !.start = [v |-> v, sc |-> 0],
                        !.last = [op |-> "set_initial_gaussian", psi |-> qs.psi]]
    /\ UNCHANGED <<arc, pipe_vars, down, host>>

\* one call sys.step()
Step ==
    /\ qs /= None
    /\ qs.last.op \in {"set_initial_gaussian", "step"}
    /\ qs.calls < MaxCalls
    /\ qs' = [QuantumSystem_step(qs) EXCEPT
                 !.calls = @ + 1,
                 !.last = [op |-> "step", psi |-> qs.psi]]
    /\ UNCHANGED <<arc, pipe_vars, down, host>>

\* ------------------------------------------------------------ SpecProduct
ZScale(a, m) == [c \in 1..4 |-> m * a[c]]

\* a * b with zeta^4 = -1
ZMul(a, b) ==
    ZAdd(ZAdd(ZScale(b, a[1]), ZPhase(ZScale(b, a[2]), 1)),
         ZAdd(ZPhase(ZScale(b, a[3]), 2), ZPhase(ZScale(b, a[4]), 3)))

\* np.conjugate: conj(zeta^k) = -zeta^(4-k)
ZConj(a) == <<a[1], 0 - a[4], 0 - a[3], 0 - a[2]>>

\* np.arange(a, b)
arange(a, b) == [q \in 1..Max2(0, b - a) |-> a + q - 1]

\* line 536: y_idx = np.arange(-n // 2, n // 2), with Python's floor division
wigner_y_idx(n) == arange((0 - n) \div 2, n \div 2)

\* variant of wigner_plus that clips at the grid boundary instead of wrapping
wigner_plus_clipped(n) ==
    [i \in 1..n |-> [c \in 1..n |->
        Max2(0, Min2(n - 1, (i - 1) + wigner_y_idx(n)[c]))]]

\* line 538: plus = (i_idx + y_idx) % n
wigner_plus(n) ==
    [i \in 1..n |-> [c \in 1..n |-> ((i - 1) + wigner_y_idx(n)[c]) % n]]

\* line 539: minus = (i_idx - y_idx) % n
wigner_minus(n) ==
    [i \in 1..n |-> [c \in 1..n |-> ((i - 1) - wigner_y_idx(n)[c]) % n]]

\* an index array numpy accepts for an axis of n entries
IndexOk(A, n) ==
    \A i \in 1..Len(A) : \A c \in 1..Len(A[i]) : A[i][c] >= 0 - n /\ A[i][c] < n

\* line 540: g_xy = psi[plus] * np.conjugate(psi[minus]); an index outside
\* [-n, n-1] raises IndexError
wigner_g_xy(psi) ==
    LET n     == Len(psi.v)
        plus  == wigner_plus(n)
        minus == wigner_minus(n)
    IN  IF ~(IndexOk(plus, n) /\ IndexOk(minus, n))
        THEN [error |-> "IndexError", v |-> <<>>, sc |-> 0]
        ELSE [error |-> NoError,
              v  |-> [i \in 1..n |-> [c \in 1..n |->
                        ZMul(PyIndex(psi.v, plus[i][c]),
                             ZConj(PyIndex(psi.v, minus[i][c])))]],
              sc |-> 2 * psi.sc]

\* lines 535-540 of wigner(): the product array of the current wavefunction
WignerProduct ==
    /\ qs /= None
    /\ qs.last.op = "set_initial_gaussian"
    /\ qs.frame = None
    /\ qs' = [qs EXCEPT !.frame =
                 [of    |-> qs.psi,
                  y_idx |-> wigner_y_idx(qs.n),
                  plus  |-> wigner_plus(qs.n),
                  minus |-> wigner_minus(qs.n),
                  g_xy  |-> wigner_g_xy(qs.psi)]]
    /\ UNCHANGED <<arc, pipe_vars, down, host>>

InitProduct ==
    /\ Idle
    /\ arc = None
    /\ down = None
    /\ qs \in {QuantumSystem_init(n, 1, 0) : n \in 1..MaxGrid}

NextProduct ==
    \/ \E v \in [1..qs.n -> {Z0, Z1, ZI}] : SetInitial(v)
    \/ WignerProduct

SpecProduct == InitProduct /\ [][NextProduct]_vars

\* np.fft.fftshift(A, axes=1) and np.fft.fft(A, axis=1, norm="ortho") on
\* an array [v, sc] of rows
fftshift_axis1(A) == [A EXCEPT !.v = [i \in 1..Len(A.v) |-> fftshift(A.v[i])]]

fft_ortho_axis1(A) ==
    LET n == Len(A.v)
    IN  [v  |-> [i \in 1..n |-> fft_ortho([v |-> A.v[i], sc |-> A.sc]).v],
         sc |-> A.sc + Log2(n)]

\* 2 * Re(z) of z = a + b*zeta + c*zeta^2 + d*zeta^3 is 2a + (b - d)*sqrt(2):
\* the pair <<2a, b - d>>
ZRe2(z) == <<2 * z[1], z[2] - z[4]>>

\* variant of wigner that returns W instead of W.T
QuantumSystem_wigner_untransposed(q) ==
    LET n    == q.n
        g_xy == wigner_g_xy(q.psi)
        G    == fftshift_axis1(fft_ortho_axis1(fftshift_axis1(g_xy)))
        x    == [i \in 1..n |-> (i - 1) - (n \div 2)]
        p    == fftshift(fftfreq(n))
    IN  [X |-> [r \in 1..n |-> [i \in 1..n |-> x[i]]],
         P |-> [r \in 1..n |-> [i \in 1..n |-> p[r]]],
         W |-> [v  |-> [r \in 1..n |-> [i \in 1..n |-> ZRe2(G.v[r][i])]],
                sc |-> G.sc]]

\* QuantumSystem.wigner (lines 533-550).  x is in units of dx and p in
\* units of pi/L; W[r][i] is the pair <<a, b>> with value
\* (a + b*sqrt(2)) / (2 * sqrt(2)^sc * pi)
QuantumSystem_wigner(q) ==
    LET n    == q.n
        g_xy == wigner_g_xy(q.psi)
        G    == fftshift_axis1(fft_ortho_axis1(fftshift_axis1(g_xy)))
        x    == [i \in 1..n |-> (i - 1) - (n \div 2)]
        p    == fftshift(fftfreq(n))
    IN  [X |-> [r \in 1..n |-> [i \in 1..n |-> x[i]]],
         P |-> [r \in 1..n |-> [i \in 1..n |-> p[r]]],
         W |-> [v  |-> [r \in 1..n |-> [i \in 1..n |-> ZRe2(G.v[i][r])]],
                sc |-> G.sc]]

\* precompute: _, _, Wn = sys.wigner() on the current wavefunction
Wigner ==
    /\ qs /= None
    /\ qs.last.op \in {"set_initial_gaussian", "step"}
    /\ qs' = [qs EXCEPT !.frame =
                 LET w == QuantumSystem_wigner(qs)
                 IN  [of |-> qs.psi, X |-> w.X, P |-> w.P, W |-> w.W]]
    /\ UNCHANGED <<arc, pipe_vars, down, host>>

\* ------------------------------------------------------------ SpecWigner
\* a run of one system with an odd kinetic quantum: frames taken of the
\* initial wavefunction and after steps
InitWigner ==
    /\ Idle
    /\ arc = None
    /\ down = None
    /\ qs \in {QuantumSystem_init(n, L, 1) : n \in GridSizes, L \in Lengths}

NextWigner ==
    \/ \E v \in [1..qs.n -> {Z0, Z1, ZI}] : SetInitial(v)
    \/ Step
    \/ Wigner

SpecWigner == InitWigner /\ [][NextWigner]_vars

\* ------------------------------------------------------------ SpecStep

InitStep ==
    /\ Idle
    /\ arc = None
    /\ down = None
    /\ qs \in {QuantumSystem_init(n, 12, kq) : n \in GridSizes, kq \in 0..MaxPhase}

NextStep ==
    \/ \E hq \in 0..MaxPhase : SetDoubleWell(hq)
    \/ \E v \in [1..qs.n -> {Z0, Z1, ZI}] : SetInitial(v)
    \/ Step

SpecStep == InitStep /\ [][NextStep]_vars

\* ------------------------------------------------------------ SpecArc
\* Electrical_Arc_Demo.py: the handler list frame_change_pre, the scene
\* objects the handler looks up by name, and the handler itself.
EMISSION_STRENGTH == 200

\* the function object arc_frame_handler of the id-th execution of the
\* script, and a handler of another script
ArcHandler(id) == [name |-> "arc_frame_handler", id |-> id]
OtherHandler   == [name |-> "other_handler", id |-> 0]

\* list.remove(h): drop the first element equal to h
RECURSIVE ListRemove(_, _)
ListRemove(list, h) ==
    IF list = <<>> THEN <<>>
    ELSE IF Head(list) = h THEN Tail(list)
    ELSE <<Head(list)>> \o ListRemove(Tail(list), h)

\* the loop of _clear_old_handler over the elements k.. of what it iterates
RECURSIVE ClearFrom(_, _, _)
ClearFrom(iterated, k, list) ==
    IF k > Len(iterated) THEN list
    ELSE ClearFrom(iterated, k + 1,
                   IF iterated[k].name = "arc_frame_handler"
                   THEN ListRemove(list, iterated[k]) ELSE list)

\* the same loop iterating over the list it removes from
RECURSIVE ClearInPlace(_, _)
ClearInPlace(list, k) ==
    IF k > Len(list) THEN list
    ELSE ClearInPlace(IF list[k].name = "arc_frame_handler"
                      THEN ListRemove(list, list[k]) ELSE list, k + 1)

\* variant of _clear_old_handler that iterates over the list itself
clear_old_handler_in_place(hs) == ClearInPlace(hs, 1)

\* _clear_old_handler (lines 30-35): iterate over a copy, remove by name
clear_old_handler(hs) == ClearFrom(hs, 1, hs)

\* lines 234-236: register the handler unless this function object is there
register_handler(hs, fn) ==
    IF \E i \in 1..Len(hs) : hs[i] = fn THEN hs ELSE Append(hs, fn)

\* random.uniform draws: the initial z noise, the y and z jitter, the
\* emission variation
InitialZ  == {0, 1}
JitterY   == {-4, 4}
JitterZ   == {-3, 3}
Variation == {-50, 100}

\* create_zigzag_arc_mesh (lines 38-62): vertex i at x = 2i - 5,
\* y = 2 sin(i/2), kept as [base |-> i, jitter |-> 0], and z = z0[i]
create_zigzag_arc_mesh(z0) ==
    [i \in 1..(MaxSegments + 1) |->
        [x |-> (i - 1) * 2 - 5, y |-> [base |-> i - 1, jitter |-> 0], z |-> z0[i]]]

\* variant of arc_frame_handler that wiggles on every frame
arc_frame_handler_every_frame(a, frame, ry, rz, variation) ==
    IF ~a.obj \/ a.base = <<>> THEN a
    ELSE LET verts == [i \in 1..Len(a.verts) |->
                          [x |-> a.base[i].x,
                           y |-> [a.base[i].y EXCEPT !.jitter = ry[i]],
                           z |-> a.base[i].z + rz[i]]]
             mats  == IF frame % 3 = 0 /\ a.mats /= <<>>
                      THEN [a.mats EXCEPT ![1] = EMISSION_STRENGTH + variation]
                      ELSE a.mats
         IN  [a EXCEPT !.verts = verts, !.mats = mats, !.light = verts[1]]

\* variant of arc_frame_handler that moves each vertex from where it is
arc_frame_handler_accumulating(a, frame, ry, rz, variation) ==
    IF ~a.obj \/ a.base = <<>> THEN a
    ELSE LET verts == IF frame % 2 = 0
                      THEN [i \in 1..Len(a.verts) |->
                              [x |-> a.base[i].x,
                               y |-> [a.verts[i].y EXCEPT !.jitter = @ + ry[i]],
                               z |-> a.verts[i].z + rz[i]]]
                      ELSE a.verts
             mats  == IF frame % 3 = 0 /\ a.mats /= <<>>
                      THEN [a.mats EXCEPT ![1] = EMISSION_STRENGTH + variation]
                      ELSE a.mats
         IN  [a EXCEPT !.verts = verts, !.mats = mats, !.light = verts[1]]

\* variant of arc_frame_handler without the two early returns: a missing
\* object raises at arc_obj.data, a missing base_coords at base_coords[i]
arc_frame_handler_unguarded(a, frame, ry, rz, variation) ==
    IF ~a.obj THEN [a EXCEPT !.error = "AttributeError"]
    ELSE IF a.base = <<>> /\ frame % 2 = 0 /\ a.verts /= <<>>
    THEN [a EXCEPT !.error = "TypeError"]
    ELSE LET verts == IF frame % 2 = 0
                      THEN [i \in 1..Len(a.verts) |->
                              [x |-> a.base[i].x,
                               y |-> [a.base[i].y EXCEPT !.jitter = ry[i]],
                               z |-> a.base[i].z + rz[i]]]
                      ELSE a.verts
             mats  == IF frame % 3 = 0 /\ a.mats /= <<>>
                      THEN [a.mats EXCEPT ![1] = EMISSION_STRENGTH + variation]
                      ELSE a.mats
         IN  [a EXCEPT !.verts = verts, !.mats = mats, !.light = verts[1]]

\* arc_frame_handler (lines 125-162) at scene frame `frame` with the random
\* draws ry, rz, variation.  bpy.data.materials.get("ArcMaterial") is the
\* first material of that name, mats[1]
arc_frame_handler(a, frame, ry, rz, variation) ==
    IF ~a.obj \/ a.base = <<>> THEN a
    ELSE LET verts == IF frame % 2 = 0
                      THEN [i \in 1..Len(a.verts) |->
                              [x |-> a.base[i].x,
                               y |-> [a.base[i].y EXCEPT !.jitter = ry[i]],
                               z |-> a.base[i].z + rz[i]]]
                      ELSE a.verts
             mats  == IF frame % 3 = 0 /\ a.mats /= <<>>
                      THEN [a.mats EXCEPT ![1] = EMISSION_STRENGTH + variation]
                      ELSE a.mats
         IN  [a EXCEPT !.verts = verts, !.mats = mats, !.light = verts[1]]

\* the handler lists a session may start with
ArcInitialLists ==
    {<<>>, <<OtherHandler>>, <<ArcHandler(0), OtherHandler>>,
     <<OtherHandler, ArcHandler(0), ArcHandler(0)>>}

ArcInputs ==
    {[pc |-> "idle", defs |-> 0, runs |-> 0, handlers |-> hs, initial |-> hs,
      obj |-> FALSE, base |-> <<>>, verts |-> <<>>, mats |-> <<>>,
      light |-> <<>>, frame |-> 1, error |-> NoError] : hs \in ArcInitialLists}

\* the script is executed: arc_frame_handler becomes a new function object
\* and create_electrical_arc() starts (line 243)
ArcExec ==
    /\ arc /= None
    /\ arc.pc = "idle"
    /\ arc.runs < MaxRuns
    /\ arc' = [arc EXCEPT !.pc = "clear", !.defs = @ + 1, !.runs = @ + 1]
    /\ UNCHANGED <<pipe_vars, down, qs, host>>

\* create_electrical_arc() is called again without executing the script
ArcCall ==
    /\ arc /= None
    /\ arc.pc = "idle"
    /\ arc.defs >= 1
    /\ arc.runs < MaxRuns
    /\ arc' = [arc EXCEPT !.pc = "clear", !.runs = @ + 1]
    /\ UNCHANGED <<pipe_vars, down, qs, host>>

\* line 178: _clear_old_handler()
ArcClear ==
    /\ arc /= None
    /\ arc.pc = "clear"
    /\ arc' = [arc EXCEPT !.pc = "build", !.handlers = clear_old_handler(@)]
    /\ UNCHANGED <<pipe_vars, down, qs, host>>

\* lines 179-231: delete every object, then the new mesh, object,
\* base_coords, material and light; the materials of earlier runs stay in
\* bpy.data, so the new one gets a suffixed name
ArcBuild ==
    /\ arc /= None
    /\ arc.pc = "build"
    /\ \E z0 \in [1..(MaxSegments + 1) -> InitialZ] :
         arc' = [arc EXCEPT !.pc = "register",
                            !.obj = TRUE,
                            !.verts = create_zigzag_arc_mesh(z0),
                            !.base = create_zigzag_arc_mesh(z0),
                            !.mats = Append(@, EMISSION_STRENGTH),
                            !.light = <<0, 0, 0>>]
    /\ UNCHANGED <<pipe_vars, down, qs, host>>

\* lines 234-239: register the handler; the camera
ArcRegister ==
    /\ arc /= None
    /\ arc.pc = "register"
    /\ arc' = [arc EXCEPT !.pc = "idle",
                          !.handlers = register_handler(@, ArcHandler(arc.defs))]
    /\ UNCHANGED <<pipe_vars, down, qs, host>>

\* random.uniform is called only inside the branches of the handler: on a
\* frame that does not take the branch nothing is drawn (the value 0 is
\* passed and not used)
Draws(taken, nv, values) == IF taken THEN [1..nv -> values] ELSE {[i \in 1..nv |-> 0]}

\* the host changes to scene frame f while no script runs and calls the
\* handlers of frame_change_pre
ArcFrame(f) ==
    /\ arc /= None
    /\ arc.pc = "idle"
    /\ \E i \in 1..Len(arc.handlers) : arc.handlers[i].name = "arc_frame_handler"
    /\ \E ry \in Draws(f % 2 = 0, Len(arc.verts), JitterY),
          rz \in Draws(f % 2 = 0, Len(arc.verts), JitterZ),
          variation \in IF f % 3 = 0 THEN Variation ELSE {0} :
         arc' = [arc_frame_handler(arc, f, ry, rz, variation) EXCEPT !.frame = f]
    /\ UNCHANGED <<pipe_vars, down, qs, host>>

\* the user deletes the object ElectricalArc; its mesh, the materials and
\* the light stay
ArcDeleteObject ==
    /\ arc /= None
    /\ arc.pc = "idle"
    /\ arc.obj
    /\ arc' = [arc EXCEPT !.obj = FALSE]
    /\ UNCHANGED <<pipe_vars, down, qs, host>>

\* the user removes the custom property base_coords of ElectricalArc
ArcDeleteProperty ==
    /\ arc /= None
    /\ arc.pc = "idle"
    /\ arc.obj
    /\ arc.base /= <<>>
    /\ arc' = [arc EXCEPT !.base = <<>>]
    /\ UNCHANGED <<pipe_vars, down, qs, host>>

InitArc ==
    /\ Idle
    /\ down = None
    /\ qs = None
    /\ arc \in ArcInputs

NextArc ==
    \/ ArcExec
    \/ ArcCall
    \/ ArcClear
    \/ ArcBuild
    \/ ArcRegister
    \/ \E f \in 1..MaxArcFrame : ArcFrame(f)
    \/ ArcDeleteObject
    \/ ArcDeleteProperty

SpecArc == InitArc /\ [][NextArc]_vars

\* ------------------------------------------------------------ SpecFloat
\* precompute_single on floating-point values, each array abstracted to
\* "finite" (every entry finite) or "nan" (some entry NaN).  dt is finite,
\* NaN or infinite; barrier_height is finite or so large that V overflows.
FloatInputs ==
    {[pc |-> "new", n |-> n, dt |-> dt, barrier |-> b, frames |-> q,
      steps_per_frame |-> sp, psi |-> "none", U_V |-> "none", U_T |-> "none",
      out |-> <<>>, jj |-> 0, ss |-> 0, error |-> NoError] :
        n \in -1..1, dt \in {"finite", "nan", "inf"}, b \in {"finite", "huge"},
        q \in 0..MaxQuota, sp \in 0..MaxSteps}

\* an array computed from x by arithmetic with the scalar dt
TimesDt(x, dt) == IF x = "finite" /\ dt = "finite" THEN "finite" ELSE "nan"

\* the elementwise product of two arrays
Times(x, y) == IF x = "finite" /\ y = "finite" THEN "finite" ELSE "nan"

\* line 557, QuantumSystem.__init__: dx = L / n raises ZeroDivisionError for
\* n = 0, np.linspace raises ValueError for n < 0; dt is not looked at, and
\* U_T = exp(-1j * k**2 * dt / 2) is NaN for a NaN or infinite dt
FloatNew ==
    /\ qs /= None
    /\ qs.pc = "new"
    /\ qs' = IF qs.n = 0
             THEN [qs EXCEPT !.pc = "raised", !.error = "ZeroDivisionError"]
             ELSE IF qs.n < 0
             THEN [qs EXCEPT !.pc = "raised", !.error = "ValueError"]
             ELSE [qs EXCEPT !.pc = "well", !.psi = "finite", !.U_V = "finite",
                             !.U_T = TimesDt("finite", qs.dt)]
    /\ UNCHANGED <<arc, pipe_vars, down, host>>

\* line 558, set_double_well: U_V = exp(-1j * V * dt / 2)
FloatWell ==
    /\ qs /= None
    /\ qs.pc = "well"
    /\ qs' = [qs EXCEPT !.pc = "gauss",
                        !.U_V = TimesDt(IF qs.barrier = "finite" THEN "finite" ELSE "nan",
                                        qs.dt)]
    /\ UNCHANGED <<arc, pipe_vars, down, host>>

\* lines 559-567: set_initial_gaussian, then frame 0 from wigner()
FloatFrame0 ==
    /\ qs /= None
    /\ qs.pc = "gauss"
    /\ qs' = [qs EXCEPT !.pc = "loop", !.psi = "finite",
                        !.out = <<"finite">>, !.jj = 1, !.ss = 0]
    /\ UNCHANGED <<arc, pipe_vars, down, host>>

\* lines 569-570: one sys.step(): psi *= U_V; fft; *= U_T; ifft; psi *= U_V
FloatStep ==
    /\ qs /= None
    /\ qs.pc = "loop"
    /\ qs.jj < qs.frames
    /\ qs.ss < qs.steps_per_frame
    /\ qs' = [qs EXCEPT !.psi = Times(Times(Times(qs.psi, qs.U_V), qs.U_T), qs.U_V),
                        !.ss = @ + 1]
    /\ UNCHANGED <<arc, pipe_vars, down, host>>

\* lines 571-572: Wn = sys.wigner(); frames.append(...)
FloatFrame ==
    /\ qs /= None
    /\ qs.pc = "loop"
    /\ qs.jj < qs.frames
    /\ qs.ss >= qs.steps_per_frame
    /\ qs' = [qs EXCEPT !.out = Append(@, Times(qs.psi, qs.psi)),
                        !.jj = @ + 1, !.ss = 0]
    /\ UNCHANGED <<arc, pipe_vars, down, host>>

\* line 573: return
FloatReturn ==
    /\ qs /= None
    /\ qs.pc = "loop"
    /\ qs.jj >= qs.frames
    /\ qs' = [qs EXCEPT !.pc = "returned"]
    /\ UNCHANGED <<arc, pipe_vars, down, host>>

InitFloat ==
    /\ Idle
    /\ arc = None
    /\ down = None
    /\ qs \in FloatInputs

NextFloat ==
    \/ FloatNew
    \/ FloatWell
    \/ FloatFrame0
    \/ FloatStep
    \/ FloatFrame
    \/ FloatReturn

SpecFloat == InitFloat /\ [][NextFloat]_vars

\* ------------------------------------------------------------ Spec
Next ==
    \/ MainStart
    \/ SingleBegin \/ SingleStep \/ SingleFrame \/ SingleReturn
    \/ MultiSegBegin \/ MultiStep \/ MultiFrame \/ MultiSegEnd \/ MultiReturn
    \/ CreateGrid \/ CreateHud \/ NewAnimator \/ MainApply \/ MainHud
    \/ Install \/ Timeline
    \/ \E f \in SceneFrames : FrameChange(f)
    \/ \E fidx \in FrameArgs : ApplyFrame(fidx)

Spec == Init /\ [][Next]_vars

InitHost ==
    /\ \E c \in HostKnobs : Start(c)
    /\ down = None
    /\ qs = None
    /\ host = [runs |-> 1, aborted |-> FALSE]
    /\ arc = None

NextHost ==
    \/ MainStart
    \/ SingleBegin \/ SingleStep \/ SingleFrame \/ SingleReturn
    \/ MultiSegBegin \/ MultiStep \/ MultiFrame \/ MultiSegEnd \/ MultiReturn
    \/ CreateGrid \/ CreateHud \/ NewAnimator \/ MainApply \/ MainHud
    \/ Install \/ Timeline
    \/ \E f \in HostFrames : FrameChange(f)
    \/ \E fidx \in FrameArgs : ApplyFrame(fidx)
    \/ Fault
    \/ Unwind
    \/ \E c \in HostKnobs : Rerun(c)
    \/ \E add \in BOOLEAN : EditMesh(add)
    \/ MoveVertex
    \/ HostInstall(2)
    \/ ForeignAppend

SpecHost == InitHost /\ [][NextHost]_vars

\* ------------------------------------------------------------ claims
\* the heights the mesh shows are those of frame fr
Displays(fr) ==
    /\ Len(surf.verts) = Len(ravel(fr))
    /\ \A v \in 1..Len(surf.verts) : surf.verts[v][3] = <<cfg.z_scale, ravel(fr)[v]>>

\* C1: apply_frame never fails on an out-of-range index.  With a buffer of
\* T >= 1 frames, a call with index fidx reads and displays frame 0 when
\* fidx < 0, frame T-1 when fidx >= T and frame fidx otherwise, and no
\* exception is raised.
C1_ClampNeverFails ==
    /\ error = NoError
    /\ pc /= "raised"
    /\ anim /= None => Len(frames_all) >= 1
    /\ shown /= None =>
         LET T == Len(frames_all)
             k == IF shown.arg < 0 THEN 0
                  ELSE IF shown.arg >= T THEN T - 1 ELSE shown.arg
         IN  /\ shown.fidx = k
             /\ Displays(frames_all[k + 1])

\* C1 witness: apply_frame was called with fidx = -1 on a buffer of at least
\* two frames and frame 0 is displayed
C1_Witness ==
    /\ shown /= None
    /\ shown.arg = -1
    /\ Len(frames_all) >= 2
    /\ shown.fidx = 0
    /\ frames_all[1] /= frames_all[Len(frames_all)]
    /\ Displays(frames_all[1])

\* the precompute pass that main entered has run all its loops to the end
PrecomputeDone ==
    IF use_multi
    THEN pc \notin {"main", "multi_loop"} /\ idx = Len(cfg.n_list) /\ j >= cfg.frames_per_n
    ELSE pc \notin {"main", "single", "single_loop"} /\ j >= cfg.frames

\* C2: precompute runs to completion before any consumption.  Whenever an
\* animator or a handler exists, or a frame has been read by apply_frame
\* (called by main or by the frame-change handler), the precompute pass has
\* returned the complete list, the read happened after the return, and the
\* frame read at index k is the k-th frame of the complete list.
C2_PrecomputeBeforeConsumption ==
    /\ handlers /= <<>> => PrecomputeDone
    /\ anim /= None => PrecomputeDone /\ frames = ListRef /\ anim.frames = ListRef
    /\ shown /= None =>
         /\ PrecomputeDone
         /\ shown.pc \in {"apply0", "done"}
         /\ shown.fidx \in 0..(Len(frames_all) - 1)
         /\ Displays(frames_all[shown.fidx + 1])

\* C2 witness: the installed handler has read a frame of the last segment of
\* a sweep after main finished
C2_Witness ==
    /\ pc = "done"
    /\ use_multi
    /\ shown /= None
    /\ shown.pc = "done"
    /\ shown.fidx >= 1
    /\ made[shown.fidx + 1].seg = Len(cfg.n_list) - 1

\* the values of a 2-D array
Cells(A) == {A[a][b] : a \in 1..Len(A), b \in 1..Shape(A)[2]}

\* the segments the pass runs, their grid sizes and their configured quota
NumSegs == IF use_multi THEN Len(cfg.n_list) ELSE 1
SegN(sg) == IF use_multi THEN cfg.n_list[sg + 1] ELSE cfg.n
Quota == IF use_multi THEN cfg.frames_per_n ELSE cfg.frames

\* C3 as stated: each segment contributes exactly its frame quota, for every
\* configured quota: the pass returns NumSegs * Quota frames, the frame at
\* index sg*Quota + num being frame num of segment sg.
C3_QuotaAsStated ==
    frames = ListRef =>
        /\ Len(frames_all) = NumSegs * Quota
        /\ \A k \in 0..(Len(frames_all) - 1) :
             /\ made[k + 1] = [seg |-> k \div Quota, num |-> k % Quota]
             /\ \A c \in Cells(frames_all[k + 1]) : c.psi.n = SegN(k \div Quota)

\* C3 amended: frame 0 of a segment is always taken, so each segment
\* contributes max(1, quota) frames; for every quota >= 1 that is exactly the
\* quota.  The pass returns NumSegs * max(1, Quota) frames, segments in
\* n_list order, the frame at index sg*max(1, Quota) + num being frame num of
\* segment sg.
C3_QuotaAtLeastOne ==
    frames = ListRef =>
        LET q == Max2(1, Quota)
        IN  /\ Len(frames_all) = NumSegs * q
            /\ Len(made) = Len(frames_all)
            /\ \A k \in 0..(Len(frames_all) - 1) :
                 /\ made[k + 1] = [seg |-> k \div q, num |-> k % q]
                 /\ \A c \in Cells(frames_all[k + 1]) : c.psi.n = SegN(k \div q)

\* C3 witness: a sweep of three segments with a quota of at least two frames
\* has returned
C3_Witness ==
    /\ frames = ListRef
    /\ use_multi
    /\ Len(cfg.n_list) = 3
    /\ cfg.frames_per_n >= 2
    /\ Len(frames_all) = 3 * cfg.frames_per_n
    /\ made[Len(made)] = [seg |-> 2, num |-> cfg.frames_per_n - 1]

\* C4: within a segment frame 0 is computed with zero steps taken and frame
\* num from the state after exactly num * steps_per_frame calls of step();
\* the running system has taken steps_per_frame steps per frame made plus the
\* s steps of the inner loop under way, and none after the last frame.
C4_StepsPerFrame ==
    /\ \A k \in 1..Len(frames_all) :
         \A c \in Cells(frames_all[k]) :
             c.psi.steps = made[k].num * cfg.steps_per_frame
    /\ sys /= None =>
         /\ s \in 0..cfg.steps_per_frame
         /\ sys.psi.steps = made[Len(made)].num * cfg.steps_per_frame + s
         /\ (pc \notin {"single_loop", "multi_loop"} \/ j >= Quota) => s = 0

\* C4 witness: frame 2 of a segment was computed after 2 * steps_per_frame
\* steps, with steps_per_frame = 2
C4_Witness ==
    /\ pc = "done"
    /\ cfg.steps_per_frame = 2
    /\ \E k \in 1..Len(frames_all) :
         /\ made[k].num = 2
         /\ \A c \in Cells(frames_all[k]) : c.psi.steps = 4
    /\ sys.psi.steps = (Quota - 1) * 2

\* C5: no quantum state is shared between segments.  When the frame loop of
\* a segment starts, its system is freshly built for the segment's grid size,
\* its wavefunction is the initial Gaussian and no step has been taken; every
\* frame is computed from a wavefunction that started as the Gaussian of its
\* own segment's grid, and a segment's frame 0 from that Gaussian itself.
C5_FreshSystemPerSegment ==
    /\ (pc \in {"single_loop", "multi_loop"} /\ j = 1 /\ s = 0) =>
         /\ sys.n = SegN(idx)
         /\ sys.U_V = "double_well"
         /\ sys.psi = [ic |-> "gaussian", n |-> SegN(idx), steps |-> 0]
    /\ \A k \in 1..Len(frames_all) :
         \A c \in Cells(frames_all[k]) :
             /\ c.psi.ic = "gaussian"
             /\ c.psi.n = SegN(made[k].seg)
             /\ made[k].num = 0 => c.psi.steps = 0

\* C5 witness: a later segment of a sweep starts from zero steps after an
\* earlier segment has taken steps
C5_Witness ==
    /\ pc = "multi_loop"
    /\ idx >= 1
    /\ j = 1 /\ s = 0
    /\ cfg.frames_per_n >= 2
    /\ cfg.steps_per_frame >= 1
    /\ sys.psi.steps = 0
    /\ \E k \in 1..Len(frames_all) :
         made[k].seg = idx - 1 /\ \A c \in Cells(frames_all[k]) : c.psi.steps >= 1

\* C6: every frame has the display shape (mesh_ny, mesh_nx) whatever the
\* grid size, and so have the meshes; the surface mesh has mesh_ny * mesh_nx
\* vertices, which is the animator's nx * ny, and apply_frame does not raise.
C6_FixedDisplayShape ==
    /\ \A k \in 1..Len(frames_all) : Shape(frames_all[k]) = <<cfg.mesh_ny, cfg.mesh_nx>>
    /\ Xd_i /= NoArray =>
         Shape(Xd_i) = <<cfg.mesh_ny, cfg.mesh_nx>> /\ Shape(Pd_i) = <<cfg.mesh_ny, cfg.mesh_nx>>
    /\ Xd /= NoArray =>
         Shape(Xd) = <<cfg.mesh_ny, cfg.mesh_nx>> /\ Shape(Pd) = <<cfg.mesh_ny, cfg.mesh_nx>>
    /\ surf /= None => Len(surf.verts) = cfg.mesh_ny * cfg.mesh_nx
    /\ anim /= None =>
         /\ anim.ny = cfg.mesh_ny /\ anim.nx = cfg.mesh_nx
         /\ anim.vert_count = Len(surf.verts)
    /\ error = NoError

\* C6 witness: a frame of a later, finer segment is displayed on a mesh that
\* is not square
C6_Witness ==
    /\ pc = "done"
    /\ use_multi
    /\ cfg.mesh_nx /= cfg.mesh_ny
    /\ shown /= None
    /\ made[shown.fidx + 1].seg >= 1
    /\ SegN(made[shown.fidx + 1].seg) > cfg.mesh_nx
    /\ Displays(frames_all[shown.fidx + 1])

\* a sweep that down-samples: at least one frame per segment, a display of at
\* least 2 x 2 samples, no grid smaller than the display
Regular ==
    /\ Quota >= 1
    /\ cfg.mesh_nx >= 2 /\ cfg.mesh_ny >= 2
    /\ \A sg \in 0..(NumSegs - 1) : SegN(sg) >= cfg.mesh_nx /\ SegN(sg) >= cfg.mesh_ny

\* C8 as stated, for the sweeps that down-sample: the meshes kept from the
\* first segment equal the down-sampled position and momentum meshes of every
\* later segment.
C8_MeshesCompatible ==
    (use_multi /\ Regular /\ Xd0 /= NoArray /\ Xd_i /= NoArray) =>
        (Xd_i = Xd0 /\ Pd_i = Pd0)

\* C9 as stated, for the runs that down-sample, in single-n and multi-n mode:
\* for every frame index k of the buffer, the time the HUD
\* shows with frame k, k * dt * steps_per_frame, is the simulated time of the
\* state frame k was computed from: its number of steps times dt.
C9_HudShowsSimulatedTime ==
    (anim /= None /\ Regular) =>
        \A k \in 0..(Len(frames_all) - 1) :
            \A c \in Cells(frames_all[k + 1]) :
                update_hud_time(anim, k) = c.psi.steps * cfg.dt

\* the evenly spaced position of sample k of m on an axis of n samples is
\* k*(n-1)/(m-1); index i is nearest to it when no index of the axis is closer
NearestIndex(i, k, n, m) ==
    \A i2 \in 0..(n - 1) :
        Abs(i * (m - 1) - k * (n - 1)) <= Abs(i2 * (m - 1) - k * (n - 1))

\* index i is the last index at or below that position
FloorIndex(i, k, n, m) ==
    i * (m - 1) <= k * (n - 1) /\ k * (n - 1) < (i + 1) * (m - 1)

\* every output value is the source value at the selected row and column
CopiesSource(d) ==
    /\ Shape(d.out) = <<d.mesh_ny, d.mesh_nx>>
    /\ \A a \in 1..d.mesh_ny : \A b \in 1..d.mesh_nx :
         d.out[a][b] = d.W[d.iy[a] + 1][d.ix[b] + 1]

NativeFreq(b, n) == IF 2 * b < n THEN b ELSE b - n

\* the five operations written out on the values: half-step potential phase
\* U_V[l], forward orthonormal sum, kinetic phase of bin b, inverse
\* orthonormal sum, half-step potential phase U_V[i]
FiveOperations(psi, U_V, kq) ==
    LET n == Len(psi.v)
    IN  [v  |-> [i \in 1..n |->
                    ZPhase(
                        ZSum([b \in 1..n |->
                            ZPhase(
                                ZSum([l \in 1..n |->
                                    ZPhase(ZPhase(psi.v[l], U_V[l]),
                                           0 - (8 \div n) * (b - 1) * (l - 1))]),
                                (8 \div n) * (b - 1) * (i - 1)
                                  - kq * NativeFreq(b - 1, n) * NativeFreq(b - 1, n))]),
                        U_V[i])],
         sc |-> psi.sc + 2 * Log2(n)]

\* C10: one call to QuantumSystem.step applies exactly five operations to
\* the wavefunction in this order: half-step potential phase, forward
\* orthonormal transform, full-step kinetic phase bin-for-bin in the
\* transform's native frequency order, inverse orthonormal transform,
\* half-step potential phase, with the same potential operator first and
\* last; the call changes nothing else of the system.
C10_StepIsFiveOperations ==
    (qs /= None /\ qs.last.op = "step") =>
        /\ qs.psi = FiveOperations(qs.last.psi, qs.U_V, qs.kq)
        /\ qs.U_T = [b \in 1..qs.n |->
                        (0 - qs.kq * NativeFreq(b - 1, qs.n) * NativeFreq(b - 1, qs.n)) % 8]

\* C10 witness: a second step on 4 points with a double well set, an odd
\* kinetic quantum and a wavefunction that the step changes
C10_Witness ==
    /\ qs /= None
    /\ qs.last.op = "step"
    /\ qs.calls = 2
    /\ qs.n = 4
    /\ qs.kq = 1
    /\ qs.U_V = <<7, 0, 7, 0>>
    /\ \E i \in 1..4 : qs.last.psi.v[i] /= Z0
    /\ \E i \in 1..4 : qs.psi.v[i] /= [c \in 1..4 |-> 16 * qs.last.psi.v[i][c]]

RECURSIVE Pow2(_)
Pow2(e) == IF e = 0 THEN 1 ELSE 2 * Pow2(e - 1)

\* |z|^2 of z = a + b*zeta + c*zeta^2 + d*zeta^3 is
\* (a^2 + b^2 + c^2 + d^2) + (ab + bc + cd - ad) * sqrt(2): the pair <<r, q>>
ZAbs2(z) ==
    <<z[1] * z[1] + z[2] * z[2] + z[3] * z[3] + z[4] * z[4],
      z[1] * z[2] + z[2] * z[3] + z[3] * z[4] - z[1] * z[4]>>

RECURSIVE SumAbs2To(_, _)
SumAbs2To(v, m) ==
    IF m = 0 THEN <<0, 0>>
    ELSE LET r == SumAbs2To(v, m - 1)
             z == ZAbs2(v[m])
         IN  <<r[1] + z[1], r[2] + z[2]>>

\* sum(|psi|^2) of two arrays is the same number: the sums of |v|^2 agree
\* once each is multiplied by the other's 2^sc
SameNorm(a, b) ==
    LET na == SumAbs2To(a.v, Len(a.v))
        nb == SumAbs2To(b.v, Len(b.v))
    IN  /\ na[1] * Pow2(b.sc) = nb[1] * Pow2(a.sc)
        /\ na[2] * Pow2(b.sc) = nb[2] * Pow2(a.sc)

\* C11: total probability sum(|psi|^2) * dx is conserved by step(): after
\* any number of steps from any initial wavefunction it equals its value at
\* step 0 (dx is fixed at construction, so the sums are compared), and each
\* single step conserves it.
C11_NormConserved ==
    (qs /= None /\ qs.calls >= 1) =>
        /\ SameNorm(qs.psi, qs.start)
        /\ SameNorm(qs.psi, qs.last.psi)

\* C11 witness: two steps on 4 points from a wavefunction of norm 3 with a
\* double well set and an odd kinetic quantum; the values changed, the sum
\* of squares is 3 * 2^8 at scale 8
C11_Witness ==
    /\ qs /= None
    /\ qs.calls = 2
    /\ qs.n = 4
    /\ qs.kq = 1
    /\ qs.U_V = <<7, 0, 7, 0>>
    /\ qs.start.v = <<Z1, ZI, Z0, Z1>>
    /\ qs.psi.sc = 8
    /\ SumAbs2To(qs.psi.v, 4) = <<3 * 256, 0>>
    /\ \E i \in 1..4 : qs.psi.v[i] /= [c \in 1..4 |-> 256 * qs.start.v[i][c]]

RECURSIVE PairSumTo(_, _)
PairSumTo(a, m) ==
    IF m = 0 THEN <<0, 0>>
    ELSE LET r == PairSumTo(a, m - 1) IN <<r[1] + a[m][1], r[2] + a[m][2]>>

\* (r + q*sqrt(2)) * sqrt(2)^e
RECURSIVE MulSqrt2(_, _)
MulSqrt2(a, e) == IF e = 0 THEN a ELSE MulSqrt2(<<2 * a[2], a[1]>>, e - 1)

\* The sum of the returned map over the momentum axis at position i, times
\* the momentum cell width (P[2] - P[1]) * pi / L, is
\* S / (2 * sqrt(2)^W.sc * L) with S the sum of the pairs of column i;
\* |psi[i]|^2 is ZAbs2(psi.v[i]) / 2^psi.sc.  With W.sc = 2*psi.sc + log2(n)
\* the two are equal exactly when S * dP = 2 * L * sqrt(n) * ZAbs2(psi.v[i]).
MarginalMatches(q, i) ==
    LET f  == q.frame
        n  == q.n
        dP == f.P[2][1] - f.P[1][1]
        S  == PairSumTo([r \in 1..n |-> f.W.v[r][i]], n)
        A  == MulSqrt2(ZAbs2(f.of.v[i]), Log2(n))
    IN  /\ f.W.sc = 2 * f.of.sc + Log2(n)
        /\ S[1] * dP = 2 * q.L * A[1]
        /\ S[2] * dP = 2 * q.L * A[2]

\* C13: Wigner marginal consistency.  For every frame of a run, summing the
\* map returned by wigner() over the momentum axis and multiplying by the
\* momentum cell width reproduces |psi(x)|^2 at every position x (and hence
\* the map integrated over both axes equals the total probability).
C13_MarginalIsDensity ==
    (qs /= None /\ qs.frame /= None) =>
        \A i \in 1..qs.n : MarginalMatches(qs, i)

\* C14: norm divergence is reported.  If during a run the wavefunction's
\* norm drifts beyond the tolerance across steps (here: it is no longer a
\* finite number), the run surfaces an error to the caller at once instead
\* of continuing and appending further frames.
C14_DivergenceReported ==
    (qs /= None /\ qs.pc \in {"loop", "returned"} /\ qs.psi = "nan") =>
        /\ qs.error /= NoError
        /\ \A f \in 1..Len(qs.out) : qs.out[f] = "finite"

\* C15: an invalid configuration is rejected at once.  Constructing the
\* engine with n <= 0 or a non-finite dt surfaces an error to the caller
\* immediately, before any frame is produced.
C15_InvalidConfigRejected ==
    (qs /= None /\ qs.pc /= "new" /\ (qs.n <= 0 \/ qs.dt /= "finite")) =>
        /\ qs.pc = "raised"
        /\ qs.error /= NoError
        /\ qs.out = <<>>

\* C16: a shape mismatch at consumption is an error that changes nothing.
\* When the mesh's vertex count differs from the animator's nx*ny, every call
\* of apply_frame (from the handler or direct, whatever the index) raises
\* ValueError, and neither the mesh vertices, the cached coordinate buffer,
\* the frame list nor the HUD is modified by the failed call.
C16_MismatchChangesNothing ==
    [][(/\ anim /= None
        /\ surf /= None
        /\ Len(surf.verts) /= anim.vert_count
        /\ \/ \E f \in HostFrames : FrameChange(f)
           \/ \E fidx \in FrameArgs : ApplyFrame(fidx))
       => (/\ error' = "ValueError: Vertex count mismatch"
           /\ surf' = surf
           /\ anim' = anim
           /\ frames_all' = frames_all
           /\ shown' = shown
           /\ hud' = hud)]_vars

\* C16 witness: a call failed on an edited mesh while the animator holds a
\* filled coordinate buffer of the original size
C16_Witness ==
    /\ anim /= None
    /\ surf /= None
    /\ error = "ValueError: Vertex count mismatch"
    /\ Len(surf.verts) = anim.vert_count + 1
    /\ Len(anim.co_buffer) = 3 * anim.vert_count
    /\ shown /= None

TaggedHandlers == SelectSeq(handlers, LAMBDA h : h.is_wigner_handler)

\* C17: precompute is all-or-nothing.  If a step or Wigner computation of
\* any segment raises, the pass aborts and main ends: it receives no frame
\* list, creates no mesh, builds no animator and installs no handler.  What
\* is installed and displayed afterwards is what an earlier, completed run
\* left, never the partial list of the aborted pass.
C17_PrecomputeAllOrNothing ==
    host.aborted =>
        /\ pc = "raised"
        /\ frames = None /\ Xd = NoArray /\ Pd = NoArray
        /\ \A hi \in 1..Len(TaggedHandlers) : TaggedHandlers[hi].self < host.runs
        /\ anim /= None => anim.frames.list = "earlier"
        /\ surf /= None =>
             /\ anim /= None /\ shown /= None
             /\ \A v \in 1..Len(surf.verts) : surf.verts[v][3] /= <<>>
        /\ (shown /= None /\ Len(surf.verts) = anim.vert_count) =>
             Displays(Deref(anim.frames)[shown.fidx + 1])
        /\ host.runs = 1 =>
             /\ surf = None /\ anim = None /\ hud = None /\ shown = None
             /\ TaggedHandlers = <<>>

\* C17 witness: the second run aborted in precompute; the handler of the
\* first run then displayed a frame of the first run's list
C17_Witness ==
    /\ host.aborted
    /\ host.runs = 2
    /\ pc = "raised"
    /\ anim /= None
    /\ shown /= None
    /\ shown.pc = "raised"
    /\ Len(TaggedHandlers) = 1
    /\ Len(Deref(anim.frames)) = 2

\* C18: Wigner handler registration never duplicates.  After any sequence
\* of install calls, across repeated script runs, frame_change_post holds
\* exactly one handler tagged _is_wigner_handler, and it drives the most
\* recently installed animator: the one of the current run once that run
\* has installed, an earlier one before.
C18_OneWignerHandler ==
    /\ Len(TaggedHandlers) <= 1
    /\ pc \in {"timeline", "done"} =>
         /\ Len(TaggedHandlers) = 1
         /\ TaggedHandlers[1].self = host.runs
    /\ (pc \notin {"timeline", "done"} /\ TaggedHandlers /= <<>>) =>
         /\ host.runs > 1
         /\ TaggedHandlers[1].self < host.runs

\* C18 witness: the second run has installed next to a foreign handler that
\* an other script registered after the first run
C18_Witness ==
    /\ host.runs = 2
    /\ pc = "done"
    /\ handlers = <<Foreign, [is_wigner_handler |-> TRUE, frame_start |-> 1, self |-> 2]>>

ArcHandlers == SelectSeq(arc.handlers, LAMBDA h : h.name = "arc_frame_handler")

\* C19: arc handler registration never duplicates.  After any number of
\* runs of create_electrical_arc, also when the script was executed again
\* and arc_frame_handler is a new function object, frame_change_pre holds
\* exactly one handler named arc_frame_handler (the current function), and
\* the handlers with other names are left in the list, in their order.
C19_OneArcHandler ==
    (arc /= None /\ arc.pc = "idle" /\ arc.runs >= 1) =>
        /\ ArcHandlers = <<ArcHandler(arc.defs)>>
        /\ SelectSeq(arc.handlers, LAMBDA h : h.name /= "arc_frame_handler")
             = SelectSeq(arc.initial, LAMBDA h : h.name /= "arc_frame_handler")

\* C19 witness: the script was executed twice in a session that began with
\* two stale arc handlers behind an other handler
C19_Witness ==
    /\ arc /= None
    /\ arc.pc = "idle"
    /\ arc.runs = 2
    /\ arc.defs = 2
    /\ arc.initial = <<OtherHandler, ArcHandler(0), ArcHandler(0)>>
    /\ arc.handlers = <<OtherHandler, ArcHandler(2)>>

\* a step of the host from idle to idle that deletes neither the object nor
\* its base_coords: a frame change
ArcFrameStep ==
    /\ arc /= None
    /\ arc.pc = "idle" /\ arc'.pc = "idle"
    /\ arc'.obj = arc.obj
    /\ arc.base = <<>> \/ arc'.base /= <<>>

\* C20: the arc handler's cadence.  A frame change to frame f modifies the
\* arc's vertex coordinates only if f is even, and then sets every vertex
\* to its base x, base y plus a jitter and base z plus a jitter; it modifies
\* the emission strength only if f is divisible by 3; on every other frame
\* those values are left unchanged.
C20_Cadence ==
    [][ArcFrameStep =>
        /\ arc'.frame % 2 /= 0 => arc'.verts = arc.verts
        /\ arc'.frame % 3 /= 0 => arc'.mats = arc.mats
        /\ (arc'.frame % 2 = 0 /\ arc.obj /\ arc.base /= <<>>) =>
             \A i \in 1..Len(arc.verts) :
                 /\ arc'.verts[i].x = arc.base[i].x
                 /\ arc'.verts[i].y.base = arc.base[i].y.base
                 /\ arc'.verts[i].y.jitter \in JitterY
                 /\ arc'.verts[i].z - arc.base[i].z \in JitterZ
        /\ (arc'.frame % 3 = 0 /\ arc.obj /\ arc.base /= <<>>) =>
             arc'.mats[1] - EMISSION_STRENGTH \in Variation
        /\ arc'.base = arc.base]_vars

\* C20 witness: frame 3 changed the emission strength after frame 2 had
\* moved the vertices, and the odd frame left the moved vertices alone
C20_Witness ==
    /\ arc /= None
    /\ arc.pc = "idle"
    /\ arc.frame = 3
    /\ arc.obj
    /\ arc.mats[1] = EMISSION_STRENGTH + 100
    /\ arc.verts[1].y.jitter = 4
    /\ arc.verts /= arc.base

\* C21: frames are immutable once produced.  A frame that is in the buffer
\* keeps its place and its contents through every later step(), wigner() and
\* append of the precompute pass, and every call of apply_frame or
\* update_hud_time, with any index, leaves the whole buffer (length, order
\* and contents) as it was.
C21_FramesImmutable ==
    [][/\ Len(frames_all') >= Len(frames_all)
       /\ SubSeq(frames_all', 1, Len(frames_all)) = frames_all
       /\ (shown' /= shown \/ hud' /= hud \/ frames /= None) => frames_all' = frames_all]_vars

\* C21 witness: a sweep of two segments with two frames each and steps
\* between them is in the buffer, its frames differ, and apply_frame has been
\* called with the index past the end
C21_Witness ==
    /\ pc = "done"
    /\ shown /= None
    /\ shown.arg = Len(frames_all)
    /\ Len(frames_all) = 4
    /\ made[2].seg = 0 /\ made[3].seg = 1
    /\ frames_all[1] /= frames_all[2]
    /\ frames_all[3] /= frames_all[4]
    /\ hud.body /= 0

\* The discrete Wigner sum at position index i and momentum bin kappa (the
\* momentum kappa*pi/L): sum over one period of the relative coordinate y of
\* psi[i + y] * conj(psi[i - y]) * exp(-2*pi*i*y*kappa/n), for n dividing 8
WignerSum(psi, i, kappa) ==
    LET n == Len(psi.v)
    IN  ZSum([m \in 1..n |->
                ZPhase(ZMul(psi.v[((i - 1 + (m - 1)) % n) + 1],
                            ZConj(psi.v[((i - 1 - (m - 1)) % n) + 1])),
                       0 - (8 \div n) * (m - 1) * kappa)])

\* C22: the three arrays wigner() returns have the shape n x n and the same
\* axis meaning.  For all (j, i), X[j, i] = x[i], P[j, i] = p[j] with p the
\* centered ascending momentum axis, and W[j, i] is the Wigner value at
\* position x[i] and momentum p[j].
C22_AxesAgree ==
    (qs /= None /\ qs.frame /= None) =>
        LET f == qs.frame
            n == qs.n
        IN  /\ Shape(f.X) = <<n, n>>
            /\ Shape(f.P) = <<n, n>>
            /\ Shape(f.W.v) = <<n, n>>
            /\ f.W.sc = 2 * f.of.sc + Log2(n)
            /\ \A r \in 1..n : \A i \in 1..n :
                 /\ f.X[r][i] = (i - 1) - (n \div 2)
                 /\ f.P[r][i] = (r - 1) - (n \div 2)
                 /\ f.W.v[r][i] = ZRe2(WignerSum(f.of, i, f.P[r][i]))

\* C22 witness: a map on four points, taken after a step, whose value at
\* (j, i) differs from its value at (i, j)
C22_Witness ==
    /\ qs /= None
    /\ qs.frame /= None
    /\ qs.n = 4
    /\ qs.calls >= 1
    /\ qs.frame.of = qs.psi
    /\ \E r \in 1..4 : \E i \in 1..4 : qs.frame.W.v[r][i] /= qs.frame.W.v[i][r]

\* an index list for an axis of n samples and m display samples: m indices
\* in [0, n-1], non-decreasing, from 0 and, when m >= 2, to n-1
IndexListOk(list, n, m) ==
    /\ Len(list) = m
    /\ \A k \in 1..m : list[k] \in 0..(n - 1)
    /\ \A k \in 1..(m - 1) : list[k] <= list[k + 1]
    /\ list[1] = 0
    /\ m >= 2 => list[m] = n - 1

\* C23: the down-sampling index lists never index out of range.  For every
\* grid size n >= 1 and display size m >= 1 all m selected indices lie in
\* [0, n-1], the list is non-decreasing, its first index is 0 and, when
\* m >= 2, its last index is n-1.
C23_IndicesInRange ==
    (down /= None /\ down.pc \in {"indexed", "sampled"}) =>
        /\ IndexListOk(down.ix, down.n, down.mesh_nx)
        /\ IndexListOk(down.iy, down.n, down.mesh_ny)
        /\ down.pc = "sampled" => Shape(down.out) = <<down.mesh_ny, down.mesh_nx>>

\* C23 witness: a single source sample shown on four columns and one row,
\* and six samples on four rows
C23_Witness ==
    /\ down /= None
    /\ down.pc = "sampled"
    /\ \/ down.n = 1 /\ down.mesh_nx = 4 /\ down.mesh_ny = 1
          /\ down.ix = <<0, 0, 0, 0>> /\ down.iy = <<0>>
       \/ down.n = 6 /\ down.mesh_nx = 1 /\ down.mesh_ny = 4
          /\ down.ix = <<0>> /\ down.iy = <<0, 1, 3, 5>>

\* the entries of a list are pairwise distinct
Distinct(list) == \A a \in 1..Len(list) : \A b \in 1..Len(list) : a /= b => list[a] /= list[b]

\* C24: down-sampling selects a subset of the source samples.  For every
\* segment of the sweep and the configured display resolution the indices
\* selected along each axis are pairwise distinct, so no source row or
\* column is duplicated in a frame and no two mesh vertices share the same
\* (x, p) coordinate.
C24_SubsetSelection ==
    /\ sys /= None => Distinct(ix) /\ Distinct(iy)
    /\ surf /= None =>
         Distinct([v \in 1..Len(surf.verts) |-> <<surf.verts[v][1], surf.verts[v][2]>>])

\* C25: mesh and HUD always refer to the same frame.  For every scene frame
\* the handler is called with (below frame_start, inside the timeline or
\* past the last precomputed frame) the frame index whose heights are
\* written to the mesh equals the frame index whose time is written to the
\* HUD.
C25_MeshAndHudAgree ==
    [][(\E f \in SceneFrames : FrameChange(f)) =>
          (error' = NoError =>
             /\ \A v \in 1..Len(surf'.verts) :
                  surf'.verts[v][3] = <<cfg.z_scale, ravel(frames_all[shown'.fidx + 1])[v]>>
             /\ hud'.body = update_hud_time(anim', shown'.fidx))]_vars

\* C26: the timeline set by main covers the buffer exactly.  With T frames
\* in the buffer the timeline is 1..T, and the handler main installed maps
\* scene frame f of the timeline to the index f - frame_start, which
\* apply_frame takes as it is (no clamping) and displays without raising:
\* the scene frames frame_start..frame_end map one-to-one and in order onto
\* 0..T-1; a scene frame below frame_start displays frame 0.
C26_TimelineCoversBuffer ==
    (pc = "done" /\ scn /= None) =>
        LET T == Len(frames_all)
            h == handlers[Len(handlers)]
        IN  /\ scn.frame_start = 1
            /\ scn.frame_end = T
            /\ h.is_wigner_handler
            /\ \A f \in scn.frame_start..scn.frame_end :
                 LET k == handler_idx(h, f)
                     r == apply_frame(anim, surf.verts, k)
                 IN  /\ k = f - scn.frame_start
                     /\ k \in 0..(T - 1)
                     /\ r.raised = NoError
                     /\ r.fidx = k
                     /\ \A v \in 1..Len(r.verts) :
                          r.verts[v][3] = <<cfg.z_scale, ravel(frames_all[k + 1])[v]>>
            /\ \A f \in 0..(scn.frame_start - 1) :
                 apply_frame(anim, surf.verts, handler_idx(h, f)).fidx = 0

\* C26 witness: the last scene frame of a timeline of three frames displays
\* the last frame of the buffer
C26_Witness ==
    /\ pc = "done"
    /\ scn = [frame_start |-> 1, frame_end |-> 3]
    /\ Len(frames_all) = 3
    /\ shown = [arg |-> 2, fidx |-> 2, pc |-> "done"]
    /\ frames_all[3] /= frames_all[2]
    /\ Displays(frames_all[3])

\* C27: apply_frame changes only vertex heights.  Across every call of
\* apply_frame, from the handler or direct, every vertex's x and y
\* coordinates are what they were immediately before the call, whatever
\* edits of the vertex positions were made between the calls.
C27_OnlyHeightsChange ==
    [][((\E f \in HostFrames : FrameChange(f)) \/ (\E fidx \in FrameArgs : ApplyFrame(fidx)))
        => /\ Len(surf'.verts) = Len(surf.verts)
           /\ \A v \in 1..Len(surf.verts) :
                /\ surf'.verts[v][1] = surf.verts[v][1]
                /\ surf'.verts[v][2] = surf.verts[v][2]]_vars

\* C28: grid build order and frame flattening order agree.  For the
\* (ny, nx) meshes the grid was built from, vertex number j*nx + i is at
\* (X[j, i], Y[j, i]) with height 0 until a frame is applied and, after
\* apply_frame(k), height z_scale * frames[k][j, i]; every face refers only
\* to vertex numbers in [0, ny*nx) and there are (ny-1)*(nx-1) faces.
C28_BuildAndFlattenAgree ==
    surf /= None =>
        LET ny == Shape(Xd)[1]
            nx == Shape(Xd)[2]
        IN  /\ Len(surf.verts) = ny * nx
            /\ \A r \in 0..(ny - 1) : \A i \in 0..(nx - 1) :
                 LET vert == surf.verts[r * nx + i + 1]
                 IN  /\ vert[1] = Xd[r + 1][i + 1]
                     /\ vert[2] = Pd[r + 1][i + 1]
                     /\ vert[3] = IF shown = None THEN <<>>
                                  ELSE <<cfg.z_scale, frames_all[shown.fidx + 1][r + 1][i + 1]>>
            /\ \A face \in surf.faces : \A c \in 1..4 : face[c] \in 0..(ny * nx - 1)
            /\ Cardinality(surf.faces) = (ny - 1) * (nx - 1)

\* C28 witness: the second frame of a run is shown on a 2 x 2 mesh of four
\* different positions, with one face
C28_Witness ==
    /\ pc = "done"
    /\ surf /= None
    /\ Shape(Xd) = <<2, 2>>
    /\ shown /= None
    /\ shown.fidx = 1
    /\ Xd[1][1] /= Xd[1][2]
    /\ Pd[1][1] /= Pd[2][1]
    /\ surf.verts[2][3] /= surf.verts[3][3]
    /\ surf.faces = {<<0, 1, 3, 2>>}

\* C29: the arc wiggle is relative to the stored base shape and never
\* accumulates.  After any sequence of frame changes the stored base_coords
\* are those of the build, every vertex i has x equal to base x_i, y within
\* [base y_i - 4, base y_i + 4] and z within [base z_i - 3, base z_i + 3],
\* and every emission strength lies within [EMISSION_STRENGTH - 50,
\* EMISSION_STRENGTH + 100].
C29_WiggleRelativeToBase ==
    (arc /= None /\ arc.pc = "idle" /\ arc.obj /\ arc.base /= <<>>) =>
        /\ \E z0 \in [1..(MaxSegments + 1) -> InitialZ] : arc.base = create_zigzag_arc_mesh(z0)
        /\ Len(arc.verts) = Len(arc.base)
        /\ \A i \in 1..Len(arc.verts) :
             /\ arc.verts[i].x = arc.base[i].x
             /\ arc.verts[i].y.base = arc.base[i].y.base
             /\ arc.verts[i].y.jitter - arc.base[i].y.jitter \in -4..4
             /\ arc.verts[i].z - arc.base[i].z \in -3..3
        /\ \A m \in 1..Len(arc.mats) :
             arc.mats[m] \in (EMISSION_STRENGTH - 50)..(EMISSION_STRENGTH + 100)

\* C29 witness: after the frames 2, 3 and 6 of the second run the first
\* vertex is at the far end of its range and the strength at its lower end
C29_Witness ==
    /\ arc /= None
    /\ arc.pc = "idle"
    /\ arc.obj /\ arc.base /= <<>>
    /\ arc.runs = 2
    /\ arc.frame = 6
    /\ arc.verts[1].y.jitter = -4
    /\ arc.verts[1].z - arc.base[1].z = 3
    /\ arc.mats[1] = EMISSION_STRENGTH - 50

\* C30: the arc handler is a safe no-op when its scene is missing.  If the
\* scene has no object named ElectricalArc, or that object has no
\* base_coords, a frame change to any frame raises nothing and leaves every
\* mesh vertex, every emission strength and the light location as they were.
C30_NoOpWithoutScene ==
    [][(ArcFrameStep /\ (~arc.obj \/ arc.base = <<>>)) =>
          /\ arc'.error = NoError
          /\ arc'.verts = arc.verts
          /\ arc'.mats = arc.mats
          /\ arc'.light = arc.light
          /\ arc'.base = arc.base
          /\ arc'.handlers = arc.handlers]_vars

\* C30 witness: frame 6 arrived after the object was deleted from a scene
\* whose vertices had been moved and whose strength had been changed
C30_Witness ==
    /\ arc /= None
    /\ arc.pc = "idle"
    /\ ~arc.obj
    /\ arc.frame = 6
    /\ arc.error = NoError
    /\ arc.mats /= <<>> /\ arc.mats[1] = EMISSION_STRENGTH + 100
    /\ arc.verts /= <<>> /\ arc.verts[1].y.jitter = 4
    /\ arc.light = arc.verts[1]

====
